---- MODULE Spec2Model ----
(***************************************************************************)
(* Documentation-Crawler: a model of the crawler core                      *)
(*   src/utils/url_processor.py   URLProcessor                             *)
(*   src/crawler/new_crawler.py   DocCrawler                               *)
(*   src/crawler_app.py           CrawlerWebInterface                      *)
(*   src/src/crawler.py           DocumentationCrawler                     *)
(* Each part of the program has its own specification (SpecRelevance, ...);*)
(* a specification leaves the variables of the other parts at their        *)
(* initial values.                                                         *)
(***************************************************************************)
EXTENDS Integers, Sequences, FiniteSets, TLC

VARIABLES
    \* ---- URLProcessor.is_relevant_url (one call) ----
    rel_domain,      \* URLProcessor.domain
    rel_base_paths,  \* URLProcessor.base_paths (a sequence of paths)
    rel_url,         \* the url argument, as urlparse splits it
    rel_language,    \* the language argument
    rel_called,      \* whether is_relevant_url has returned
    rel_result       \* what it returned

relVars == <<rel_domain, rel_base_paths, rel_url, rel_language, rel_called, rel_result>>

VARIABLES
    \* ---- DocCrawler.make_request (one call) ----
    req_max_retries, \* config.max_retries
    req_retry_delay, \* config.retry_delay
    req_pc,          \* "idle", "get" (inside the loop), "returned", "raised"
    req_attempt,     \* the loop variable
    req_outcomes,    \* outcome of every GET made so far, in order
    req_sleeps,      \* argument of every time.sleep made so far, in order
    req_result       \* "unset", "response", "None" (returned), or the error raised

reqVars == <<req_max_retries, req_retry_delay, req_pc, req_attempt,
             req_outcomes, req_sleeps, req_result>>

VARIABLES
    \* ---- URLProcessor._parse_xml_sitemap (one call) ----
    xml_body,        \* what the GET of the sitemap URL yields: ErrBody (the
                     \* request raises), MalformedBody, or a parsed document
    xml_called,      \* whether _parse_xml_sitemap has returned
    xml_result       \* the list it returned

xmlVars == <<xml_body, xml_called, xml_result>>

VARIABLES
    \* ---- DocCrawler's thread-pool operations (one call) ----
    pool_op,         \* "pages": process_selected_pages, "scrape": get_scraped_content,
                     \* "sitemap": parallel_sitemap_processing; "web" when the
                     \* crawler is driven by crawl_with_progress, without a pool
    pool_items,      \* the list argument: selected_urls / sitemap_urls
    pool_workers,    \* config.max_workers
    pool_chunk_size, \* config.chunk_size
    pool_formats,    \* the store_* flags that are set
    env_fetch,       \* what a fetch of each URL yields: ErrBody or the body
    task_pc,         \* per submitted task: "queued", a position inside the task,
                     \* "done" (future finished), "collected" (seen by as_completed)
    task_resp,       \* per task: response.text held by process_page
    task_pos,        \* per task: URLs of the chunk already processed
    task_results,    \* per task: the value its future returns
    task_out,        \* per task: "none", "written", "skipped", "failed"
    main_pc,         \* calling thread: "collect", "locked", "returned"
    main_cur,        \* the future whose result the calling thread is merging
    sitemap_lock,    \* DocCrawler.sitemap_lock: "free" or its holder
    page_states,     \* DocCrawler.page_states: URL -> hash
    page_states0,    \* page_states when the call began (as load_state left it)
    state_file,      \* content of crawler_state.json
    files,           \* files written under downloaded_docs: <<url, format>>
    stats,           \* UnifiedDisplay.stats counters
    sitemap,         \* DocCrawler.sitemap: URL -> title
    content,         \* get_scraped_content's local content dict
    pbar             \* the progress bar's counter

poolVars == <<pool_op, pool_items, pool_workers, pool_chunk_size, pool_formats, env_fetch,
              task_pc, task_resp, task_pos, task_results, task_out, main_pc, main_cur,
              sitemap_lock, page_states, page_states0, state_file, files, stats,
              sitemap, content, pbar>>

VARIABLES
    \* ---- CrawlerWebInterface.crawl_with_progress (one session) ----
    web_status,          \* CrawlerWebInterface.status
    web_stop_requested,  \* CrawlerWebInterface.stop_requested
    web_pc,              \* session thread: "loop" (head of the for loop),
                         \* "scrape" (inside the try), "returned"
    web_idx,             \* index in selected_urls of the URL the loop is at
    web_scraped_content, \* CrawlerWebInterface.scraped_content
    web_error_log,       \* CrawlerWebInterface.error_log
    web_progress         \* CrawlerWebInterface.progress

webVars == <<web_status, web_stop_requested, web_pc, web_idx, web_scraped_content,
             web_error_log, web_progress>>

VARIABLES
    \* ---- DocCrawler.parse_sitemap / URLProcessor.find_sitemap_url (one call) ----
    disc_robots,       \* what the GET of /robots.txt yields
    disc_common,       \* what the GET of each common sitemap location yields
    disc_page,         \* what the GET of the sitemap URL that was found yields
    disc_pc,           \* "robots", "common" (find_sitemap_url), "found",
                       \* "processing" (inside parallel_sitemap_processing), "returned"
    disc_idx,          \* index in common_paths of the location tried next
    disc_gets,         \* the URLs find_sitemap_url has requested, in order
    disc_sitemap_url,  \* what find_sitemap_url returned
    disc_outcome       \* how parse_sitemap ended

discVars == <<disc_robots, disc_common, disc_page, disc_pc, disc_idx, disc_gets,
              disc_sitemap_url, disc_outcome>>

VARIABLES
    \* ---- DocumentationCrawler (src/src/crawler.py), one crawler ----
    crawl_op,          \* the method called: "crawl_documentation", "crawl_with_sitemap"
    crawl_start,       \* its start_url argument
    crawl_max_pages,   \* config.max_pages
    crawl_max_depth,   \* config.max_depth
    crawl_patterns,    \* config.include_patterns and config.exclude_patterns
    crawl_robots,      \* robots.txt of the start URL's domain
    crawl_pc,          \* "doc_enter", "doc_loop" (crawl_documentation), "lookup"
                       \* (crawl_with_sitemap), "list_loop" (_crawl_url_list), "done"
    crawl_ctx,         \* where crawl_documentation was called from: "direct", or
                       \* the "try" or the "except" block of crawl_with_sitemap
    visited_urls,      \* DocumentationCrawler.visited_urls
    failed_urls,       \* DocumentationCrawler.failed_urls
    crawl_queue,       \* DocumentationCrawler.crawl_queue: (url, depth) pairs
    robots_cache,      \* DocumentationCrawler.robots_cache: the domains read
    crawled_pages,     \* the local list crawled_pages: URLs of the results kept
    found_urls,        \* crawl_with_sitemap's found_urls
    url_list,          \* the urls argument of _crawl_url_list
    list_idx,          \* position of _crawl_url_list's loop in urls
    crawl_fetched,     \* every _fetch_page call so far: URL and crawl depth
    crawl_calls,       \* the calls crawl_with_sitemap made, with how each ended
    crawl_result       \* how the method ended, with pages_scraped

crawlVars == <<crawl_op, crawl_start, crawl_max_pages, crawl_max_depth, crawl_patterns,
               crawl_robots, crawl_pc, crawl_ctx, visited_urls, failed_urls, crawl_queue,
               robots_cache, crawled_pages, found_urls, url_list, list_idx,
               crawl_fetched, crawl_calls, crawl_result>>

VARIABLES
    \* ---- active_sessions and cleanup_old_sessions (src/crawler_app.py) ----
    active_sessions,   \* session id -> the status of its crawler and started_at
    sess_clock,        \* what datetime.now() reads, in seconds
    sess_created,      \* number of sessions created so far
    to_remove,         \* the to_remove list of the last cleanup_old_sessions
    sess_last          \* the last step taken: "start", "thread", "tick", "cleanup"

sessVars == <<active_sessions, sess_clock, sess_created, to_remove, sess_last>>

vars == <<relVars, reqVars, xmlVars, poolVars, webVars, discVars, crawlVars, sessVars>>

\* what each part of the program leaves alone
notRelVars == <<reqVars, xmlVars, poolVars, webVars, discVars, crawlVars,
    sessVars>>
notReqVars == <<relVars, xmlVars, poolVars, webVars, discVars, crawlVars,
    sessVars>>
notXmlVars == <<relVars, reqVars, poolVars, webVars, discVars, crawlVars,
    sessVars>>
notPoolVars == <<relVars, reqVars, xmlVars, webVars, discVars, crawlVars,
    sessVars>>
notWebVars == <<relVars, reqVars, xmlVars, poolVars, discVars, crawlVars,
    sessVars>>
\* parse_sitemap drives the thread pool, so SpecDiscovery changes poolVars too
notDiscVars == <<relVars, reqVars, xmlVars, webVars, crawlVars,
    sessVars>>
notCrawlVars == <<relVars, reqVars, xmlVars, poolVars, webVars, discVars,
    sessVars>>

notSessVars == <<relVars, reqVars, xmlVars, poolVars, webVars, discVars, crawlVars>>

(***************************************************************************)
(* Strings are sequences of one-character strings.                         *)
(***************************************************************************)

\* str.startswith(prefix)
StartsWith(s, p) ==
    /\ Len(p) <= Len(s)
    /\ \A i \in 1..Len(p) : s[i] = p[i]

\* sub in s
Contains(s, sub) ==
    \E k \in 0..(Len(s) - Len(sub)) :
        \A i \in 1..Len(sub) : s[k + i] = sub[i]

\* All sequences over S of length at most n
RECURSIVE SeqsUpTo(_, _)
SeqsUpTo(S, n) ==
    IF n = 0 THEN {<<>>}
    ELSE LET shorter == SeqsUpTo(S, n - 1)
         IN  shorter \cup {Append(s, c) : s \in {t \in shorter : Len(t) = n - 1}, c \in S}

(***************************************************************************)
(* URLProcessor.is_relevant_url                                            *)
(***************************************************************************)

\* Longest path of a URL handed to is_relevant_url
MaxPathLen == 6

Slash == "/"
PathChars == {Slash, "e", "n", "s"}

\* urlparse(url).path of an absolute URL: empty, or starting with "/"
Paths == {<<>>} \cup {<<Slash>> \o s : s \in SeqsUpTo(PathChars, MaxPathLen - 1)}

Hosts == {"docs.example", "other.example"}
Languages == {"en", "es"}

\* The raw value of the first hl= in the query string; "absent" when the
\* query has no hl key, "" for a blank "hl=".
HlRaw == {"absent", "", "en", "es"}

\* parse_qs(query).get('hl', [None])[0]: parse_qs drops blank values, so a
\* blank hl= reads as no hl at all.
url_language(url) == IF url.hl \in {"absent", ""} THEN "None" ELSE url.hl

LangChars(language) == IF language = "en" THEN <<"e", "n">> ELSE <<"e", "s">>

\* f'/{language}/'
LangSegment(language) == <<Slash>> \o LangChars(language) \o <<Slash>>
\* f'/{language}'
LangPrefix(language) == <<Slash>> \o LangChars(language)

\* ['/fr/', '/de/', '/es/', '/pt/', '/ja/', '/ko/', '/zh/']: of these only
\* '/es/' can be spelled with PathChars.
NonEnglishSegments == {LangSegment("es")}

\* the for loop over self.base_paths
path_matches(path, base_paths) ==
    \E i \in 1..Len(base_paths) : StartsWith(path, base_paths[i])

is_relevant_url_NoDomainCheck(url, language) ==
    IF ~path_matches(url.path, rel_base_paths) THEN FALSE
    ELSE IF language = "en"
         THEN IF url_language(url) = "None"
              THEN IF Contains(url.path, LangSegment(language))
                        \/ StartsWith(url.path, LangPrefix(language))
                   THEN TRUE
                   ELSE IF \E seg \in NonEnglishSegments : Contains(url.path, seg)
                        THEN FALSE
                        ELSE TRUE
              ELSE url_language(url) = "en"
         ELSE IF url_language(url) = language THEN TRUE
              ELSE IF Contains(url.path, LangSegment(language))
                        \/ StartsWith(url.path, LangPrefix(language))
                   THEN TRUE
                   ELSE FALSE

is_relevant_url(url, language) ==
    IF url.netloc # rel_domain THEN FALSE
    ELSE IF ~path_matches(url.path, rel_base_paths) THEN FALSE
    ELSE IF language = "en"
         THEN IF url_language(url) = "None"
              THEN IF Contains(url.path, LangSegment(language))
                        \/ StartsWith(url.path, LangPrefix(language))
                   THEN TRUE
                   ELSE IF \E seg \in NonEnglishSegments : Contains(url.path, seg)
                        THEN FALSE
                        ELSE TRUE
              ELSE url_language(url) = "en"
         ELSE IF url_language(url) = language THEN TRUE
              ELSE IF Contains(url.path, LangSegment(language))
                        \/ StartsWith(url.path, LangPrefix(language))
                   THEN TRUE
                   ELSE FALSE

\* base_paths as DocCrawler.__init__ hands them to URLProcessor: '' comes
\* from a base URL such as https://host/ or https://host/docs
BasePathChoices == { <<<<>>>>, <<<<Slash, "n">>>>, <<<<Slash, "n">>, <<Slash, "s">>>> }

InitRelevance ==
    /\ rel_domain = "docs.example"
    /\ rel_base_paths \in BasePathChoices
    /\ rel_url \in [netloc : Hosts, path : Paths, hl : HlRaw]
    /\ rel_language \in Languages
    /\ rel_called = FALSE
    /\ rel_result = FALSE

IdleRelevance ==
    /\ rel_domain = "docs.example"
    /\ rel_base_paths = <<>>
    /\ rel_url = [netloc |-> "docs.example", path |-> <<>>, hl |-> "absent"]
    /\ rel_language = "en"
    /\ rel_called = FALSE
    /\ rel_result = FALSE

\* one call of is_relevant_url(url, language)
CheckRelevance ==
    /\ ~rel_called
    /\ rel_called' = TRUE
    /\ rel_result' = is_relevant_url(rel_url, rel_language)
    /\ UNCHANGED <<rel_domain, rel_base_paths, rel_url, rel_language>>
    /\ UNCHANGED notRelVars

NextRelevance == CheckRelevance

(***************************************************************************)
(* DocCrawler.make_request                                                 *)
(***************************************************************************)

\* Largest config.max_retries and config.retry_delay tried
MaxRetries == 4
MaxDelay == 2

\* requests.RequestException subclasses an attempt can raise: a transport
\* error from requests.get, or HTTPError from raise_for_status
RequestErrors == {"ConnectionError", "HTTPError"}

\* CrawlerConfig.__post_init__ accepts max_retries >= 0, retry_delay >= 0
ConfigAccepts(max_retries, retry_delay) == max_retries >= 0 /\ retry_delay >= 0

InitRequest ==
    /\ req_max_retries \in 0..MaxRetries
    /\ req_retry_delay \in 0..MaxDelay
    /\ ConfigAccepts(req_max_retries, req_retry_delay)
    /\ req_pc = "idle"
    /\ req_attempt = 0
    /\ req_outcomes = <<>>
    /\ req_sleeps = <<>>
    /\ req_result = "unset"

IdleRequest ==
    /\ req_max_retries = 3
    /\ req_retry_delay = 1
    /\ req_pc = "idle"
    /\ req_attempt = 0
    /\ req_outcomes = <<>>
    /\ req_sleeps = <<>>
    /\ req_result = "unset"

\* time.sleep(self.config.retry_delay * (attempt + 1))
BackoffConstant(attempt) == req_retry_delay

Backoff(attempt) == req_retry_delay * (attempt + 1)

\* for attempt in range(self.config.max_retries): entering the loop, or
\* falling off its end at once when the range is empty (the function then
\* ends without a return statement, i.e. returns None)
MakeRequestEnter ==
    /\ req_pc = "idle"
    /\ IF 0 < req_max_retries
       THEN /\ req_pc' = "get"
            /\ req_result' = req_result
       ELSE /\ req_pc' = "returned"
            /\ req_result' = "None"
    /\ UNCHANGED <<req_max_retries, req_retry_delay, req_attempt, req_outcomes, req_sleeps>>
    /\ UNCHANGED notReqVars

\* requests.get succeeds and raise_for_status passes: return response
AttemptSucceeds ==
    /\ req_pc = "get"
    /\ req_outcomes' = Append(req_outcomes, "ok")
    /\ req_pc' = "returned"
    /\ req_result' = "response"
    /\ UNCHANGED <<req_max_retries, req_retry_delay, req_attempt, req_sleeps>>
    /\ UNCHANGED notReqVars

\* except requests.RequestException: sleep and go round again, or re-raise
AttemptFails ==
    /\ req_pc = "get"
    /\ \E e \in RequestErrors :
        /\ req_outcomes' = Append(req_outcomes, e)
        /\ IF req_attempt + 1 < req_max_retries
           THEN /\ req_sleeps' = Append(req_sleeps, Backoff(req_attempt))
                /\ req_attempt' = req_attempt + 1
                /\ req_pc' = "get"
                /\ req_result' = req_result
           ELSE /\ req_pc' = "raised"
                /\ req_result' = e
                /\ UNCHANGED <<req_sleeps, req_attempt>>
    /\ UNCHANGED <<req_max_retries, req_retry_delay>>
    /\ UNCHANGED notReqVars

NextRequest ==
    \/ MakeRequestEnter
    \/ AttemptSucceeds
    \/ AttemptFails

(***************************************************************************)
(* URLProcessor._parse_xml_sitemap                                         *)
(*                                                                         *)
(* A well-formed document is what ET.fromstring returns: a root element    *)
(* and its descendants in document order.  An element has a namespace, a   *)
(* local tag and a text, which ElementTree gives as None when the element  *)
(* is empty.  Nesting is not kept: './/' matches at any depth.             *)
(***************************************************************************)

\* Most descendants of the root in a document
MaxElems == 3

\* 'http://www.sitemaps.org/schemas/sitemap/0.9', and an element in no
\* namespace (a sitemap written without xmlns)
SitemapNS == "sitemaps.org/0.9"
Namespaces == {SitemapNS, ""}
Tags == {"loc", "url"}
Texts == {"None", "a", "b"}

Elements == [ns : Namespaces, tag : Tags, text : Texts]
Documents == [kind : {"xml"}, root : Elements, desc : SeqsUpTo(Elements, MaxElems)]

\* a GET that raises, and a body that ET.fromstring rejects with ParseError
ErrBody == [kind |-> "error"]
MalformedBody == [kind |-> "malformed"]

findall_loc_AnyNamespace(doc) ==
    LET IsLoc(e) == e.tag = "loc"
    IN  SelectSeq(doc.desc, IsLoc)

\* root.findall('.//ns:loc', namespaces): the descendants of the root (not
\* the root itself) whose qualified tag is {sitemaps.org/0.9}loc
findall_loc(doc) ==
    LET IsLoc(e) == e.ns = SitemapNS /\ e.tag = "loc"
    IN  SelectSeq(doc.desc, IsLoc)

\* [loc.text for loc in loc_elements if loc.text]
loc_texts(elems) ==
    LET HasText(e) == e.text # "None"
        kept == SelectSeq(elems, HasText)
    IN  [i \in 1..Len(kept) |-> kept[i].text]

\* _parse_xml_sitemap: a failed request or a ParseError gives []
parse_xml_sitemap(body) ==
    IF body \in {ErrBody, MalformedBody} THEN <<>>
    ELSE loc_texts(findall_loc(body))

InitXml ==
    /\ xml_body \in {ErrBody, MalformedBody} \cup Documents
    /\ xml_called = FALSE
    /\ xml_result = <<>>

IdleXml ==
    /\ xml_body = ErrBody
    /\ xml_called = FALSE
    /\ xml_result = <<>>

ParseXmlSitemap ==
    /\ ~xml_called
    /\ xml_called' = TRUE
    /\ xml_result' = parse_xml_sitemap(xml_body)
    /\ UNCHANGED xml_body
    /\ UNCHANGED notXmlVars

NextXml == ParseXmlSitemap

(***************************************************************************)
(* DocCrawler's thread-pool operations                                     *)
(*   process_selected_pages / process_page                                 *)
(*   get_scraped_content / _scrape_single_page                             *)
(*   parallel_sitemap_processing / process_sitemap_chunk                   *)
(*                                                                         *)
(* ThreadPoolExecutor: the tasks are submitted in list order and started   *)
(* first-in first-out, at most max_workers at a time; as_completed hands   *)
(* the finished futures to the calling thread in any order.  A worker's    *)
(* steps are cut where it reads or writes page_states; its network fetch   *)
(* and its update_stats calls (atomic under UnifiedDisplay.lock) are part  *)
(* of the step they belong to.  A fetch stands for make_request: ErrBody   *)
(* when make_request raises (or returns None, which raises in the caller). *)
(***************************************************************************)

\* Longest list handed to an operation, most workers, largest chunk
MaxItems == 2
MaxWorkers == 2
MaxChunk == 2

PageUrls == {"a", "b"}
SitemapUrl == "s.xml"
Contents == {"c1", "c2"}
FormatFlags == {"markdown", "raw_html", "text"}

\* urlparse of the URLs used here: "a" is https://docs.example/n,
\* "b" is https://docs.example/, "l" is https://docs.example/Login, "o" is
\* https://other.example/n, "s.xml" is https://docs.example/s.xml, the
\* common sitemap locations are those of https://docs.example, and "" is
\* the empty string
UrlRecord(u) ==
    CASE u = "a" -> [netloc |-> "docs.example", path |-> <<Slash, "n">>, hl |-> "absent"]
      [] u = "b" -> [netloc |-> "docs.example", path |-> <<Slash>>, hl |-> "absent"]
      [] u = "l" -> [netloc |-> "docs.example", path |-> <<"/", "L", "o", "g", "i", "n">>, hl |-> "absent"]
      [] u = "o" -> [netloc |-> "other.example", path |-> <<Slash, "n">>, hl |-> "absent"]
      [] u = "/sitemap.xml" ->
             [netloc |-> "docs.example", path |-> <<"/", "s", "i", "t", "e", "m", "a", "p", ".", "x", "m", "l">>, hl |-> "absent"]
      [] u = "/sitemap_index.xml" ->
             [netloc |-> "docs.example", path |-> <<"/", "s", "i", "t", "e", "m", "a", "p", "_", "i", "n", "d", "e", "x", ".", "x", "m", "l">>, hl |-> "absent"]
      [] u = "/sitemap/sitemap.xml" ->
             [netloc |-> "docs.example", path |-> <<"/", "s", "i", "t", "e", "m", "a", "p", "/", "s", "i", "t", "e", "m", "a", "p", ".", "x", "m", "l">>, hl |-> "absent"]
      [] u = "" -> [netloc |-> "", path |-> <<>>, hl |-> "absent"]
      [] OTHER   -> [netloc |-> "docs.example",
                     path |-> <<Slash, "s", ".", "x", "m", "l">>, hl |-> "absent"]

\* str.endswith(suffix)
EndsWith(s, suffix) ==
    /\ Len(suffix) <= Len(s)
    /\ \A i \in 1..Len(suffix) : s[Len(s) - Len(suffix) + i] = suffix[i]

\* url.endswith('.xml') (these URLs have no query string)
EndsWithXml(u) == EndsWith(UrlRecord(u).path, <<".", "x", "m", "l">>)

\* s.strip('/')
RECURSIVE StripSlashes(_)
StripSlashes(s) ==
    IF s = <<>> THEN s
    ELSE IF Head(s) = Slash THEN StripSlashes(Tail(s))
    ELSE IF s[Len(s)] = Slash THEN StripSlashes(SubSeq(s, 1, Len(s) - 1))
    ELSE s

\* urlparse(url).path.strip('/')
urlpath(u) == StripSlashes(UrlRecord(u).path)

\* _create_filepath: Path('').parts is (), so path_parts[-1] raises
\* IndexError (store_flatten) and Path('').with_suffix raises ValueError
create_filepath_raises(path) == path = <<>>

\* hashlib.sha256(content.encode('utf-8')).hexdigest()
calculate_hash(c) == <<"sha256", c>>

\* dictionaries
EmptyMap == [x \in {} |-> "none"]
Put(m, k, v) == [x \in (DOMAIN m) \cup {k} |-> IF x = k THEN v ELSE m[x]]

\* self.page_states[url] = current_hash
store_page_state_DropsOthers(ps, url, h) == [x \in {url} |-> h]

store_page_state(ps, url, h) == Put(ps, url, h)

\* crawler_state.json: absent, or the JSON object json.dump wrote, read
\* here as its set of "key": "value" members
NoStateFile == [exists |-> FALSE, entries |-> {}]

\* save_state: json.dump(self.page_states, f)
save_state(ps) == [exists |-> TRUE, entries |-> {<<k, ps[k]>> : k \in DOMAIN ps}]

\* load_state: json.load(f) when the file exists, {} otherwise
load_state(file) ==
    IF ~file.exists THEN EmptyMap
    ELSE [k \in {m[1] : m \in file.entries} |->
              (CHOOSE m \in file.entries : m[1] = k)[2]]

\* pbar.update(n)
pbar_update_OnePerFuture(p, n) == p + 1

pbar_update(p, n) == p + n

\* url in self.page_states and self.page_states[url] == current_hash
unchanged_NeverSkips(ps, url, h) == FALSE

unchanged(ps, url, h) == url \in DOMAIN ps /\ ps[url] = h

\* UnifiedDisplay.update_stats(key=1)
update_stats(st, key) == [st EXCEPT ![key] = @ + 1]

\* process_page's skip branch: update_stats(processed=1); return
skip_stats_NotCounted(st) == st

skip_stats(st) == update_stats(st, "processed")

\* get_page_title: the page's <title>, or the URL when the fetch fails
get_page_title(u) ==
    IF env_fetch[u].kind = "html" THEN <<"title", env_fetch[u].text>> ELSE <<"url", u>>

\* _scrape_single_page: one entry per requested format, {} on any error
scrape_single_page(u, formats) ==
    IF env_fetch[u] = ErrBody THEN EmptyMap
    ELSE [f \in formats |-> <<f, env_fetch[u].text>>]

\* get_scraped_content: url = futures[future]; content[url] = page_content
merge_content_KeyedByLastUrl(cont, url, page) ==
    IF page = EmptyMap THEN cont ELSE Put(cont, pool_items[Len(pool_items)], page)

merge_content(cont, url, page) ==
    IF page = EmptyMap THEN cont ELSE Put(cont, url, page)

\* the pairs process_sitemap_url collects from the <loc> texts of a sitemap
RECURSIVE loc_pairs(_)
loc_pairs(texts) ==
    IF texts = <<>> THEN <<>>
    ELSE LET t == Head(texts)
         IN  IF ~EndsWithXml(t) /\ is_relevant_url(UrlRecord(t), rel_language)
             THEN <<<<t, get_page_title(t)>>>> \o loc_pairs(Tail(texts))
             ELSE loc_pairs(Tail(texts))

\* index of the first <loc> whose text is None, 0 when there is none
FirstNone(locs) ==
    IF \E k \in 1..Len(locs) : locs[k].text = "None"
    THEN CHOOSE k \in 1..Len(locs) :
             /\ locs[k].text = "None"
             /\ \A j \in 1..(k - 1) : locs[j].text # "None"
    ELSE 0

\* process_sitemap_url: the pairs it returns and what it adds to the stats.
\* In an XML sitemap, page_url.endswith on an empty <loc> (text None) raises
\* AttributeError, and the except clause returns [] for the whole sitemap.
process_sitemap_url(u) ==
    IF EndsWithXml(u)
    THEN IF env_fetch[u].kind # "xml"
         THEN [pairs |-> <<>>, processed |-> 0, relevant |-> 0, errors |-> 1]
         ELSE LET locs == findall_loc(env_fetch[u])
                  k == FirstNone(locs)
                  seen == IF k = 0 THEN locs ELSE SubSeq(locs, 1, k - 1)
                  texts == [i \in 1..Len(seen) |-> seen[i].text]
                  pairs == loc_pairs(texts)
              IN  [pairs |-> IF k = 0 THEN pairs ELSE <<>>,
                   processed |-> IF k = 0 THEN Len(locs) ELSE k,
                   relevant |-> Len(pairs),
                   errors |-> IF k = 0 THEN 0 ELSE 1]
    ELSE IF is_relevant_url(UrlRecord(u), rel_language)
         THEN [pairs |-> <<<<u, get_page_title(u)>>>>, processed |-> 1,
               relevant |-> 1, errors |-> 0]
         ELSE [pairs |-> <<>>, processed |-> 1, relevant |-> 0, errors |-> 0]

\* process_sitemap_chunk: the position in the chunk after the URL at pos + 1;
\* process_sitemap_url catches its own errors, so the loop always goes on
chunk_next_pos_StopsAtError(pos, n, errors) == IF errors > 0 THEN n ELSE pos + 1

chunk_next_pos(pos, n, errors) == pos + 1

\* for url, title in results: self.sitemap[url] = title
RECURSIVE merge_sitemap(_, _)
merge_sitemap(sm, pairs) ==
    IF pairs = <<>> THEN sm
    ELSE merge_sitemap(Put(sm, Head(pairs)[1], Head(pairs)[2]), Tail(pairs))

Min(x, y) == IF x < y THEN x ELSE y

\* url_chunks[i] of parallel_sitemap_processing
Chunk(i) ==
    SubSeq(pool_items, (i - 1) * pool_chunk_size + 1,
           Min(i * pool_chunk_size, Len(pool_items)))

\* number of futures submitted
NumTasks ==
    IF pool_op = "sitemap"
    THEN (Len(pool_items) + pool_chunk_size - 1) \div pool_chunk_size
    ELSE Len(pool_items)

TaskIds == 1..NumTasks

\* as_completed has handed over every future and the with block of the
\* executor has ended: shutdown(wait=True) returns when no task is left
all_completed_FirstCompleted == \E i \in TaskIds : task_pc[i] = "collected"

all_completed == \A i \in TaskIds : task_pc[i] = "collected"

\* tasks a worker thread is busy with
Running == {j \in TaskIds : task_pc[j] \notin {"queued", "done", "collected"}}

\* the executor's work queue is first-in first-out and has max_workers threads
CanStart(i) ==
    /\ task_pc[i] = "queued"
    /\ \A j \in 1..(i - 1) : task_pc[j] # "queued"
    /\ Cardinality(Running) < pool_workers

ZeroStats == [processed |-> 0, relevant |-> 0, errors |-> 0]

\* a sitemap with one relevant page, and one with an empty <loc>
Urlset == [ns |-> SitemapNS, tag |-> "urlset", text |-> "None"]
Loc(t) == [ns |-> SitemapNS, tag |-> "loc", text |-> t]
XmlBodies == { [kind |-> "xml", root |-> Urlset, desc |-> <<Loc("a"), Loc("b")>>],
               [kind |-> "xml", root |-> Urlset, desc |-> <<Loc("a"), Loc("None")>>] }

HtmlBody(c) == [kind |-> "html", text |-> c]

PageFetches == [PageUrls -> {ErrBody} \cup {HtmlBody(c) : c \in Contents}]

\* the state file of an earlier run: some pages, stored with the hash of "c1"
StoredStates ==
    UNION {[D -> {calculate_hash("c1")}] : D \in SUBSET PageUrls}

WithSitemapFetch(f, body) ==
    [u \in PageUrls \cup {SitemapUrl} |-> IF u = SitemapUrl THEN body ELSE f[u]]

InitPoolCommon ==
    /\ pool_workers \in 1..MaxWorkers
    /\ task_pc = [i \in TaskIds |-> "queued"]
    /\ task_resp = [i \in TaskIds |-> "none"]
    /\ task_pos = [i \in TaskIds |-> 0]
    /\ task_results = [i \in TaskIds |-> <<>>]
    /\ task_out = [i \in TaskIds |-> "none"]
    /\ main_pc = "collect"
    /\ main_cur = 0
    /\ sitemap_lock = "free"
    /\ page_states = page_states0
    /\ state_file = IF page_states0 = EmptyMap THEN NoStateFile ELSE save_state(page_states0)
    /\ files = {}
    /\ stats = ZeroStats
    /\ sitemap = EmptyMap
    /\ content = EmptyMap
    /\ pbar = 0

InitPages ==
    /\ pool_op = "pages"
    /\ pool_items \in SeqsUpTo(PageUrls, MaxItems)
    /\ pool_chunk_size = 1
    /\ pool_formats \in SUBSET FormatFlags
    /\ \E f \in PageFetches : env_fetch = WithSitemapFetch(f, ErrBody)
    /\ page_states0 \in StoredStates

InitScrape ==
    /\ pool_op = "scrape"
    /\ pool_items \in SeqsUpTo(PageUrls, MaxItems)
    /\ pool_chunk_size = 1
    /\ pool_formats \in SUBSET FormatFlags
    /\ \E f \in PageFetches : env_fetch = WithSitemapFetch(f, ErrBody)
    /\ page_states0 = EmptyMap

InitSitemap ==
    /\ pool_op = "sitemap"
    /\ pool_items \in SeqsUpTo(PageUrls \cup {SitemapUrl}, MaxItems)
    /\ pool_chunk_size \in 1..MaxChunk
    /\ pool_formats = {}
    /\ \E f \in PageFetches, body \in {ErrBody, MalformedBody} \cup XmlBodies :
           env_fetch = WithSitemapFetch(f, body)
    /\ page_states0 = EmptyMap

\* the URLProcessor the crawler was built with
PoolRelevanceConfig ==
    /\ rel_domain = "docs.example"
    /\ rel_base_paths \in
          IF pool_op = "sitemap" THEN {<<<<>>>>, <<<<Slash, "n">>>>} ELSE {<<<<>>>>}
    /\ rel_url = [netloc |-> "docs.example", path |-> <<>>, hl |-> "absent"]
    /\ rel_language = "en"
    /\ rel_called = FALSE
    /\ rel_result = FALSE

InitPool ==
    /\ \/ InitPages
       \/ InitScrape
       \/ InitSitemap
    /\ InitPoolCommon
    /\ PoolRelevanceConfig

IdlePool ==
    /\ pool_op = "pages"
    /\ pool_items = <<>>
    /\ pool_workers = 1
    /\ pool_chunk_size = 1
    /\ pool_formats = {}
    /\ env_fetch = [u \in PageUrls \cup {SitemapUrl} |-> ErrBody]
    /\ page_states0 = EmptyMap
    /\ InitPoolCommon

poolConfig == <<pool_op, pool_items, pool_workers, pool_chunk_size, pool_formats,
                env_fetch, page_states0>>

\* process_page, first part: response = self.make_request(url); a failure
\* goes to the except clause: update_stats(errors=1)
PageFetch(i) ==
    /\ pool_op = "pages"
    /\ CanStart(i)
    /\ LET body == env_fetch[pool_items[i]]
       IN  IF body = ErrBody
           THEN /\ stats' = update_stats(stats, "errors")
                /\ task_out' = [task_out EXCEPT ![i] = "failed"]
                /\ task_pc' = [task_pc EXCEPT ![i] = "done"]
                /\ UNCHANGED task_resp
           ELSE /\ task_resp' = [task_resp EXCEPT ![i] = body.text]
                /\ task_pc' = [task_pc EXCEPT ![i] = "check"]
                /\ UNCHANGED <<stats, task_out>>
    /\ UNCHANGED <<poolConfig, task_pos, task_results, main_pc, main_cur, sitemap_lock,
                   page_states, state_file, files, sitemap, content, pbar>>
    /\ UNCHANGED notPoolVars

\* process_page, second part: the change detection, then the files of the
\* requested formats
PageCheck(i) ==
    /\ pool_op = "pages"
    /\ task_pc[i] = "check"
    /\ LET url == pool_items[i]
           current_hash == calculate_hash(task_resp[i])
       IN  IF unchanged(page_states, url, current_hash)
           THEN /\ stats' = skip_stats(stats)
                /\ task_out' = [task_out EXCEPT ![i] = "skipped"]
                /\ task_pc' = [task_pc EXCEPT ![i] = "done"]
                /\ UNCHANGED files
           ELSE IF pool_formats # {} /\ create_filepath_raises(urlpath(url))
           THEN /\ stats' = update_stats(stats, "errors")
                /\ task_out' = [task_out EXCEPT ![i] = "failed"]
                /\ task_pc' = [task_pc EXCEPT ![i] = "done"]
                /\ UNCHANGED files
           ELSE /\ files' = files \cup {<<url, f>> : f \in pool_formats}
                /\ task_pc' = [task_pc EXCEPT ![i] = "store"]
                /\ UNCHANGED <<stats, task_out>>
    /\ UNCHANGED <<poolConfig, task_resp, task_pos, task_results, main_pc, main_cur,
                   sitemap_lock, page_states, state_file, sitemap, content, pbar>>
    /\ UNCHANGED notPoolVars

\* process_page, last part: self.page_states[url] = current_hash;
\* update_stats(processed=1)
PageStore(i) ==
    /\ pool_op = "pages"
    /\ task_pc[i] = "store"
    /\ page_states' = store_page_state(page_states, pool_items[i],
                                       calculate_hash(task_resp[i]))
    /\ stats' = update_stats(stats, "processed")
    /\ task_out' = [task_out EXCEPT ![i] = "written"]
    /\ task_pc' = [task_pc EXCEPT ![i] = "done"]
    /\ UNCHANGED <<poolConfig, task_resp, task_pos, task_results, main_pc, main_cur,
                   sitemap_lock, state_file, files, sitemap, content, pbar>>
    /\ UNCHANGED notPoolVars

\* _scrape_single_page in a worker
ScrapeRun(i) ==
    /\ pool_op = "scrape"
    /\ CanStart(i)
    /\ task_results' = [task_results EXCEPT
                           ![i] = scrape_single_page(pool_items[i], pool_formats)]
    /\ task_out' = [task_out EXCEPT
                       ![i] = IF env_fetch[pool_items[i]] = ErrBody THEN "failed" ELSE "written"]
    /\ task_pc' = [task_pc EXCEPT ![i] = "done"]
    /\ UNCHANGED <<poolConfig, task_resp, task_pos, main_pc, main_cur, sitemap_lock,
                   page_states, state_file, files, stats, sitemap, content, pbar>>
    /\ UNCHANGED notPoolVars

\* process_sitemap_chunk in a worker: one turn of its loop over the chunk
ChunkUrl(i) ==
    /\ pool_op = "sitemap"
    /\ CanStart(i) \/ task_pc[i] = "urls"
    /\ LET chunk == Chunk(i)
           r == process_sitemap_url(chunk[task_pos[i] + 1])
           next == chunk_next_pos(task_pos[i], Len(chunk), r.errors)
       IN  /\ task_results' = [task_results EXCEPT ![i] = @ \o r.pairs]
           /\ stats' = [processed |-> stats.processed + r.processed,
                        relevant |-> stats.relevant + r.relevant,
                        errors |-> stats.errors + r.errors]
           /\ task_pos' = [task_pos EXCEPT ![i] = task_pos[i] + 1]
           /\ task_out' = [task_out EXCEPT
                              ![i] = IF r.errors > 0 \/ @ = "failed" THEN "failed" ELSE "written"]
           /\ task_pc' = [task_pc EXCEPT ![i] = IF next >= Len(chunk) THEN "done" ELSE "urls"]
    /\ UNCHANGED <<poolConfig, task_resp, main_pc, main_cur, sitemap_lock,
                   page_states, state_file, files, sitemap, content, pbar>>
    /\ UNCHANGED notPoolVars

\* the body of the as_completed loop for one finished future
Collect(i) ==
    /\ main_pc = "collect"
    /\ task_pc[i] = "done"
    /\ CASE pool_op = "pages" ->
              \* future.result(); pbar.update(1)
              /\ pbar' = pbar_update(pbar, 1)
              /\ task_pc' = [task_pc EXCEPT ![i] = "collected"]
              /\ UNCHANGED <<main_pc, main_cur, sitemap_lock, content>>
         [] pool_op = "scrape" ->
              /\ content' = merge_content(content, pool_items[i], task_results[i])
              /\ task_pc' = [task_pc EXCEPT ![i] = "collected"]
              /\ UNCHANGED <<main_pc, main_cur, sitemap_lock, pbar>>
         [] pool_op = "sitemap" ->
              \* results = future.result(); with self.sitemap_lock:
              /\ sitemap_lock = "free"
              /\ sitemap_lock' = "main"
              /\ main_pc' = "locked"
              /\ main_cur' = i
              /\ UNCHANGED <<task_pc, content, pbar>>
    /\ UNCHANGED <<poolConfig, task_resp, task_pos, task_results, task_out,
                   page_states, state_file, files, stats, sitemap>>
    /\ UNCHANGED notPoolVars

\* inside the lock: the results go into self.sitemap; then the lock is
\* released and pbar.update(len(chunk))
MergeChunk ==
    /\ main_pc = "locked"
    /\ sitemap' = merge_sitemap(sitemap, task_results[main_cur])
    /\ sitemap_lock' = "free"
    /\ pbar' = pbar_update(pbar, Len(Chunk(main_cur)))
    /\ task_pc' = [task_pc EXCEPT ![main_cur] = "collected"]
    /\ main_pc' = "collect"
    /\ main_cur' = 0
    /\ UNCHANGED <<poolConfig, task_resp, task_pos, task_results, task_out,
                   page_states, state_file, files, stats, content>>
    /\ UNCHANGED notPoolVars

\* as_completed is exhausted and the executor has shut down;
\* process_selected_pages then calls save_state
Return ==
    /\ main_pc = "collect"
    /\ all_completed
    /\ main_pc' = "returned"
    /\ state_file' = IF pool_op = "pages" THEN save_state(page_states) ELSE state_file
    /\ UNCHANGED <<poolConfig, task_pc, task_resp, task_pos, task_results, task_out,
                   main_cur, sitemap_lock, page_states, files, stats, sitemap,
                   content, pbar>>
    /\ UNCHANGED notPoolVars

NextPool ==
    \/ \E i \in TaskIds : PageFetch(i)
    \/ \E i \in TaskIds : PageCheck(i)
    \/ \E i \in TaskIds : PageStore(i)
    \/ \E i \in TaskIds : ScrapeRun(i)
    \/ \E i \in TaskIds : ChunkUrl(i)
    \/ \E i \in TaskIds : Collect(i)
    \/ MergeChunk
    \/ Return


(***************************************************************************)
(* Page discovery                                                          *)
(*   URLProcessor.find_sitemap_url, parse_html_sitemap,                    *)
(*   is_documentation_link; DocCrawler.parse_sitemap                       *)
(*                                                                         *)
(* parse_sitemap is called with the base URL https://docs.example/ ("b");  *)
(* the pages and sitemaps of the site are what the GETs yield.             *)
(***************************************************************************)

\* Most links on the HTML page
MaxLinks == 2

BaseUrl == "b"
LinkUrls == {"a", "l", "o"}

\* responses to a GET of robots.txt: 200 with a 'Sitemap: ' line (the URL
\* it names, which may be empty), 200 without one, another status, or a
\* requests.RequestException
RobotsDirectives == {SitemapUrl, ""}
RobotsResponses ==
    {[kind |-> "directive", url |-> d] : d \in RobotsDirectives}
        \cup {[kind |-> "nodirective"], [kind |-> "status404"], [kind |-> "raises"]}

\* responses to a GET of a common sitemap location
CommonResponses == {"200", "404", "raises"}

\* common_paths, each already joined to the base URL
common_paths == <<"/sitemap.xml", "/sitemap_index.xml", "/sitemap/sitemap.xml">>

\* an HTML page answered with status 200: the href of its <a> elements,
\* already joined to the page's URL
HtmlPage(links) == [kind |-> "htmlpage", links |-> links]
HtmlPages == {HtmlPage(l) : l \in SeqsUpTo(LinkUrls, MaxLinks)}

\* str.lower() of one character
Lower(c) == IF c = "L" THEN "l" ELSE c

\* str.lower()
LowerStr(s) == [i \in 1..Len(s) |-> Lower(s[i])]

NetlocChars(netloc) ==
    CASE netloc = "docs.example" -> <<"d", "o", "c", "s", ".", "e", "x", "a", "m", "p", "l", "e">>
      [] netloc = "other.example" -> <<"o", "t", "h", "e", "r", ".", "e", "x", "a", "m", "p", "l", "e">>
      [] OTHER -> <<>>

\* the URL as a string: scheme, host, path and the hl query parameter
UrlText(u) ==
    LET r == UrlRecord(u)
        query == CASE r.hl = "absent" -> <<>>
                   [] r.hl = "" -> <<"?", "h", "l", "=">>
                   [] OTHER -> <<"?", "h", "l", "=">> \o LangChars(r.hl)
    IN  <<"h", "t", "t", "p", "s", ":", "/", "/">> \o NetlocChars(r.netloc) \o r.path \o query

skip_patterns ==
    { <<"/", "l", "o", "g", "i", "n">>,
      <<"/", "s", "i", "g", "n", "u", "p">>,
      <<"/", "r", "e", "g", "i", "s", "t", "e", "r">>,
      <<"/", "a", "u", "t", "h">>,
      <<"/", "a", "p", "i", "/">>,
      <<"/", "a", "d", "m", "i", "n", "/">>,
      <<"/", "a", "c", "c", "o", "u", "n", "t", "/">>,
      <<"/", "p", "r", "o", "f", "i", "l", "e", "/">>,
      <<"m", "a", "i", "l", "t", "o", ":">>,
      <<"t", "e", "l", ":">>,
      <<"j", "a", "v", "a", "s", "c", "r", "i", "p", "t", ":">>,
      <<".", "p", "d", "f">>,
      <<".", "d", "o", "c">>,
      <<".", "z", "i", "p">>,
      <<".", "i", "m", "g">>,
      <<".", "p", "n", "g">>,
      <<".", "j", "p", "g">>,
      <<".", "g", "i", "f">>,
      <<"#">>,
      <<"?", "s", "e", "a", "r", "c", "h", "=">>,
      <<"/", "s", "e", "a", "r", "c", "h">> }

doc_indicators ==
    { <<"/", "a", "r", "t", "i", "c", "l", "e">>,
      <<"/", "a", "r", "t", "i", "c", "l", "e", "s">>,
      <<"/", "d", "o", "c", "s">>,
      <<"/", "h", "e", "l", "p">>,
      <<"/", "g", "u", "i", "d", "e">>,
      <<"/", "g", "u", "i", "d", "e", "s">>,
      <<"/", "d", "o", "c", "u", "m", "e", "n", "t", "a", "t", "i", "o", "n">>,
      <<"/", "t", "u", "t", "o", "r", "i", "a", "l">>,
      <<"/", "t", "u", "t", "o", "r", "i", "a", "l", "s">>,
      <<"/", "k", "b">>,
      <<"/", "k", "n", "o", "w", "l", "e", "d", "g", "e">>,
      <<"/", "s", "u", "p", "p", "o", "r", "t">>,
      <<"/", "f", "a", "q">>,
      <<"/", "h", "o", "w", "-", "t", "o">>,
      <<"/", "g", "e", "t", "t", "i", "n", "g", "-", "s", "t", "a", "r", "t", "e", "d">> }

\* s.rstrip('/')
RECURSIVE RStripSlashes(_)
RStripSlashes(s) ==
    IF s = <<>> THEN s
    ELSE IF s[Len(s)] = Slash THEN RStripSlashes(SubSeq(s, 1, Len(s) - 1))
    ELSE s

\* is_documentation_link(url, base_url)
is_documentation_link(u, base) ==
    LET url == UrlText(u)
        url_lower == LowerStr(url)
        path == UrlRecord(u).path
    IN  IF UrlRecord(u).netloc # UrlRecord(base).netloc THEN FALSE
        ELSE IF \E p \in skip_patterns : Contains(url_lower, p) THEN FALSE
        ELSE IF \E p \in doc_indicators : Contains(url_lower, p) THEN TRUE
        ELSE IF Contains(url, <<"/", "e", "n", "/">>)
                 /\ \E x \in {<<"a", "r", "t", "i", "c", "l", "e">>,
                              <<"c", "o", "l", "l", "e", "c", "t", "i", "o", "n">>} :
                        Contains(url_lower, x)
             THEN TRUE
        ELSE IF Contains(StripSlashes(path), <<Slash>>)
             THEN \E i \in 1..Len(rel_base_paths) :
                      StartsWith(path, RStripSlashes(rel_base_paths[i]))
             ELSE FALSE

\* parse_html_sitemap(html_url): the documentation links of the page, without
\* duplicates (list(set(doc_urls))); [] when the request fails, the status
\* is not 200 or the page has no <a href>
parse_html_sitemap(page, html_url) ==
    IF page.kind # "htmlpage" THEN {}
    ELSE {page.links[i] : i \in {j \in 1..Len(page.links) :
                                     is_documentation_link(page.links[j], html_url)}}

\* number of parameters of URLProcessor.parse_html_sitemap besides self, and
\* number of arguments DocCrawler.parse_sitemap calls it with
ParseHtmlSitemapParams == 1
ParseHtmlSitemapArgs == 2

\* a call with the wrong number of positional arguments raises TypeError
\* before the function's body runs
call_raises_TypeError(nargs, nparams) == nargs # nparams

\* what parse_sitemap has in sitemap_urls after its if/else on the kind of
\* sitemap: url_processor.parse_sitemap for a .xml URL (an HTML or broken
\* body is a ParseError there), parse_html_sitemap(sitemap_url, max_depth)
\* otherwise
xml_sitemap_urls(page) ==
    IF page.kind = "xml" THEN parse_xml_sitemap(page) ELSE <<>>

InitDiscovery ==
    /\ disc_robots \in RobotsResponses
    /\ disc_common \in [1..Len(common_paths) -> CommonResponses]
    /\ disc_page \in {ErrBody, MalformedBody} \cup XmlBodies \cup HtmlPages
    /\ disc_pc = "robots"
    /\ disc_idx = 1
    /\ disc_gets = <<>>
    /\ disc_sitemap_url = "unset"
    /\ disc_outcome = "running"

IdleDiscovery ==
    /\ disc_robots = [kind |-> "raises"]
    /\ disc_common = [i \in 1..Len(common_paths) |-> "raises"]
    /\ disc_page = ErrBody
    /\ disc_pc = "returned"
    /\ disc_idx = 1
    /\ disc_gets = <<>>
    /\ disc_sitemap_url = "unset"
    /\ disc_outcome = "idle"

\* the crawler parse_sitemap is called on: DocCrawler(config, [BaseUrl])
InitDiscoveryCrawler ==
    /\ pool_op = "sitemap"
    /\ pool_items = <<>>
    /\ pool_workers = MaxWorkers
    /\ pool_chunk_size \in 1..MaxChunk
    /\ pool_formats = {}
    /\ \E c \in Contents :
           env_fetch \in {WithSitemapFetch([u \in PageUrls |-> HtmlBody(c)], ErrBody),
                          WithSitemapFetch([u \in PageUrls |-> ErrBody], ErrBody)}
    /\ page_states0 = EmptyMap
    /\ InitPoolCommon
    /\ rel_domain = UrlRecord(BaseUrl).netloc
    /\ rel_base_paths = <<RStripSlashes(UrlRecord(BaseUrl).path)>>
    /\ rel_url = [netloc |-> "docs.example", path |-> <<>>, hl |-> "absent"]
    /\ rel_language = "en"
    /\ rel_called = FALSE
    /\ rel_result = FALSE

\* find_sitemap_url: the GET of robots.txt.  A RequestException here leaves
\* the outer try, past the common locations, to the final return base_url.
FindRobots ==
    /\ disc_pc = "robots"
    /\ disc_gets' = Append(disc_gets, "/robots.txt")
    /\ CASE disc_robots.kind = "directive" ->
              /\ disc_sitemap_url' = disc_robots.url
              /\ disc_pc' = "found"
         [] disc_robots.kind = "raises" ->
              /\ disc_sitemap_url' = BaseUrl
              /\ disc_pc' = "found"
         [] OTHER ->
              /\ disc_pc' = "common"
              /\ UNCHANGED disc_sitemap_url
    /\ UNCHANGED <<disc_robots, disc_common, disc_page, disc_idx, disc_outcome>>
    /\ UNCHANGED <<poolVars, notDiscVars>>

\* find_sitemap_url: one turn of the loop over common_paths; after the last
\* turn without a 200 it returns base_url
FindCommon ==
    /\ disc_pc = "common"
    /\ disc_gets' = Append(disc_gets, common_paths[disc_idx])
    /\ IF disc_common[disc_idx] = "200"
       THEN /\ disc_sitemap_url' = common_paths[disc_idx]
            /\ disc_pc' = "found"
            /\ UNCHANGED disc_idx
       ELSE IF disc_idx < Len(common_paths)
       THEN /\ disc_idx' = disc_idx + 1
            /\ UNCHANGED <<disc_sitemap_url, disc_pc>>
       ELSE /\ disc_sitemap_url' = BaseUrl
            /\ disc_pc' = "found"
            /\ UNCHANGED disc_idx
    /\ UNCHANGED <<disc_robots, disc_common, disc_page, disc_outcome>>
    /\ UNCHANGED <<poolVars, notDiscVars>>

\* parse_sitemap after find_sitemap_url: an empty sitemap URL returns at
\* once; a TypeError of the parse_html_sitemap call and an empty list of URLs
\* return too; otherwise parallel_sitemap_processing(sitemap_urls) begins
ParseDispatch ==
    /\ disc_pc = "found"
    /\ LET xml == EndsWithXml(disc_sitemap_url)
           sitemap_urls == IF xml THEN xml_sitemap_urls(disc_page) ELSE <<>>
           n == (Len(sitemap_urls) + pool_chunk_size - 1) \div pool_chunk_size
       IN  IF disc_sitemap_url = ""
           THEN /\ disc_outcome' = "no_sitemap"
                /\ disc_pc' = "returned"
                /\ UNCHANGED poolVars
           ELSE IF ~xml /\ call_raises_TypeError(ParseHtmlSitemapArgs, ParseHtmlSitemapParams)
           THEN /\ disc_outcome' = "TypeError"
                /\ disc_pc' = "returned"
                /\ UNCHANGED poolVars
           ELSE IF sitemap_urls = <<>>
           THEN /\ disc_outcome' = "zero_urls"
                /\ disc_pc' = "returned"
                /\ UNCHANGED poolVars
           ELSE /\ disc_pc' = "processing"
                /\ pool_items' = sitemap_urls
                /\ task_pc' = [i \in 1..n |-> "queued"]
                /\ task_resp' = [i \in 1..n |-> "none"]
                /\ task_pos' = [i \in 1..n |-> 0]
                /\ task_results' = [i \in 1..n |-> <<>>]
                /\ task_out' = [i \in 1..n |-> "none"]
                /\ UNCHANGED <<disc_outcome, pool_op, pool_workers, pool_chunk_size,
                               pool_formats, env_fetch, main_pc, main_cur, sitemap_lock,
                               page_states, page_states0, state_file, files, stats,
                               sitemap, content, pbar>>
    /\ UNCHANGED <<disc_robots, disc_common, disc_page, disc_idx, disc_gets,
                   disc_sitemap_url>>
    /\ UNCHANGED notDiscVars

\* parallel_sitemap_processing inside parse_sitemap
DiscChunkUrl(i) == disc_pc = "processing" /\ ChunkUrl(i)
DiscCollect(i) == disc_pc = "processing" /\ Collect(i)
DiscMergeChunk == disc_pc = "processing" /\ MergeChunk
DiscPoolReturn == disc_pc = "processing" /\ Return

\* parse_sitemap returns after parallel_sitemap_processing
ParseReturn ==
    /\ disc_pc = "processing"
    /\ main_pc = "returned"
    /\ disc_pc' = "returned"
    /\ disc_outcome' = "processed"
    /\ UNCHANGED <<disc_robots, disc_common, disc_page, disc_idx, disc_gets,
                   disc_sitemap_url>>
    /\ UNCHANGED <<poolVars, notDiscVars>>

NextDiscovery ==
    \/ FindRobots
    \/ FindCommon
    \/ ParseDispatch
    \/ \E i \in TaskIds : DiscChunkUrl(i)
    \/ \E i \in TaskIds : DiscCollect(i)
    \/ DiscMergeChunk
    \/ DiscPoolReturn
    \/ ParseReturn
(***************************************************************************)
(* CrawlerWebInterface.crawl_with_progress                                 *)
(*                                                                         *)
(* The session thread walks selected_urls (pool_items: the keys of the     *)
(* crawler's sitemap, so without duplicates) and scrapes each page with    *)
(* DocCrawler._scrape_single_page; stop_crawling runs in a request thread. *)
(*                                                                         *)
(* A session begins either in the thread the start-crawling route creates, *)
(* at the entry of start_crawling ("start"), or with crawl_with_progress   *)
(* called on an interface whose crawler has its sitemap ("loop").          *)
(***************************************************************************)

\* the try block in _scrape_single_page catches Exception and returns {}:
\* no exception of a fetch reaches crawl_with_progress
scrape_single_page_raises(u) == FALSE

NoDuplicates(seq) == \A i, j \in 1..Len(seq) : i # j => seq[i] # seq[j]

InitWeb ==
    /\ pool_op = "web"
    /\ pool_items \in {l \in SeqsUpTo(PageUrls, MaxItems) : l # <<>> /\ NoDuplicates(l)}
    /\ pool_workers = 1
    /\ pool_chunk_size = 1
    /\ pool_formats \in SUBSET FormatFlags
    /\ \E f \in PageFetches : env_fetch = WithSitemapFetch(f, ErrBody)
    /\ page_states0 = EmptyMap
    /\ InitPoolCommon
    /\ web_pc \in {"start", "loop"}
    /\ web_status = IF web_pc = "start" THEN "idle" ELSE "crawling"
    /\ web_stop_requested = FALSE
    /\ web_idx = 1
    /\ web_scraped_content = EmptyMap
    /\ web_error_log = <<>>
    /\ web_progress = 0

IdleWeb ==
    /\ web_status = "idle"
    /\ web_stop_requested = FALSE
    /\ web_pc = "returned"
    /\ web_idx = 1
    /\ web_scraped_content = EmptyMap
    /\ web_error_log = <<>>
    /\ web_progress = 0

\* the fields of the CrawlerConfig dataclass, and the keywords
\* start_crawling builds it with
CrawlerConfigFields ==
    {"base_url", "language", "max_workers", "debug", "timeout", "max_retries",
     "retry_delay", "chunk_size", "user_agent"}
StartCrawlingKeywords ==
    {"base_url", "language", "max_workers", "debug", "timeout", "max_retries",
     "retry_delay", "chunk_size", "max_crawl_depth"}

\* a dataclass __init__ raises TypeError for a keyword that is not a field
config_raises_TypeError(keywords) == ~(keywords \subseteq CrawlerConfigFields)

\* start_crawling, first lines: status = "initializing"; stop_requested = False
WebStartCrawling ==
    /\ web_pc = "start"
    /\ web_status' = "initializing"
    /\ web_stop_requested' = FALSE
    /\ web_pc' = "config"
    /\ UNCHANGED <<web_idx, web_scraped_content, web_error_log, web_progress>>
    /\ UNCHANGED notWebVars

\* start_crawling: self.config = CrawlerConfig(...); the TypeError goes to
\* the except clause at the end of start_crawling: status = "error".  (The
\* rest of start_crawling, from "discovering" on, follows a config that was
\* built.)
WebCreateConfig ==
    /\ web_pc = "config"
    /\ IF config_raises_TypeError(StartCrawlingKeywords)
       THEN /\ web_status' = "error"
            /\ web_pc' = "returned"
       ELSE /\ web_status' = "discovering"
            /\ web_pc' = "discover"
    /\ UNCHANGED <<web_stop_requested, web_idx, web_scraped_content, web_error_log,
                   web_progress>>
    /\ UNCHANGED notWebVars

\* head of the for loop: if self.stop_requested: status = "stopped"; return
WebLoopHead ==
    /\ web_pc = "loop"
    /\ web_idx <= Len(pool_items)
    /\ IF web_stop_requested
       THEN /\ web_status' = "stopped"
            /\ web_pc' = "returned"
       ELSE /\ web_pc' = "scrape"
            /\ UNCHANGED web_status
    /\ UNCHANGED <<web_stop_requested, web_idx, web_scraped_content, web_error_log,
                   web_progress>>
    /\ UNCHANGED notWebVars

\* the try block: scrape the page, store it when the result is not empty,
\* count it; the except clause appends to error_log and counts it too
WebScrape ==
    /\ web_pc = "scrape"
    /\ LET url == pool_items[web_idx]
           content_formats == scrape_single_page(url, pool_formats)
       IN  IF scrape_single_page_raises(url)
           THEN /\ web_error_log' = Append(web_error_log, url)
                /\ UNCHANGED web_scraped_content
           ELSE /\ web_scraped_content' =
                       IF content_formats # EmptyMap
                       THEN Put(web_scraped_content, url, content_formats)
                       ELSE web_scraped_content
                /\ UNCHANGED web_error_log
    /\ web_progress' = web_progress + 1
    /\ web_idx' = web_idx + 1
    /\ web_pc' = "loop"
    /\ UNCHANGED <<web_status, web_stop_requested>>
    /\ UNCHANGED notWebVars

\* after the loop: self.status = "completed"
WebComplete ==
    /\ web_pc = "loop"
    /\ web_idx > Len(pool_items)
    /\ web_status' = "completed"
    /\ web_pc' = "returned"
    /\ UNCHANGED <<web_stop_requested, web_idx, web_scraped_content, web_error_log,
                   web_progress>>
    /\ UNCHANGED notWebVars

\* stop_crawling, from a request thread: self.stop_requested = True
WebStopCrawling ==
    /\ ~web_stop_requested
    /\ web_stop_requested' = TRUE
    /\ UNCHANGED <<web_status, web_pc, web_idx, web_scraped_content, web_error_log,
                   web_progress>>
    /\ UNCHANGED notWebVars

NextWeb ==
    \/ WebStartCrawling
    \/ WebCreateConfig
    \/ WebLoopHead
    \/ WebScrape
    \/ WebComplete
    \/ WebStopCrawling


(***************************************************************************)
(* DocumentationCrawler (src/src/crawler.py)                               *)
(*   crawl_documentation, crawl_with_sitemap, _crawl_url_list,             *)
(*   _should_crawl_url, _check_robots_txt; normalize_url, is_same_domain,  *)
(*   get_domain (src/src/utils.py)                                         *)
(*                                                                         *)
(* The crawler is single-threaded.  A URL is a host, a page (its path) and *)
(* a tail: nothing, a trailing slash, or a query string.  What a fetch     *)
(* yields (an error, a page without content, or a page with content and    *)
(* links) is decided by the site when the page is fetched.                 *)
(***************************************************************************)

\* Largest max_pages and max_depth of a configuration, most links that
\* _extract_links returns for a page, most <loc> entries of sitemap.xml
MaxPages == 3
MaxDepth == 2
MaxPageLinks == 2
MaxLocs == 2

CrawlHosts == {"docs.example", "DOCS.example", "other.example"}
CrawlPages == {"p0", "p1", "p2"}
Tails == {"", "/", "?v=1"}

Url(h, p, t) == [host |-> h, page |-> p, tail |-> t]

\* str.lower() of a host name
LowerHost(h) == IF h = "DOCS.example" THEN "docs.example" ELSE h

\* normalize_url: scheme://netloc/path without trailing slashes; the query
\* and the fragment are dropped, the case of the host is kept
normalize_url(u) == [u EXCEPT !.tail = ""]

\* get_domain: urlparse(url).netloc.lower()
get_domain(u) == LowerHost(u.host)

\* is_same_domain: the lower-cased hosts are equal
is_same_domain(u1, u2) == LowerHost(u1.host) = LowerHost(u2.host)

\* robots.txt of docs.example as RobotFileParser.read() finds it: not
\* readable, or rules that disallow some pages for the configured user agent
RobotsUnreadable == [readable |-> FALSE, disallow |-> {}]
RobotsFiles ==
    {RobotsUnreadable} \cup {[readable |-> TRUE, disallow |-> D] : D \in {{}, {"p0"}, {"p1"}}}

\* _check_robots_txt: can_fetch of the cached parser; True when robots.txt
\* could not be read (the cache then holds None)
check_robots_txt_AllowsAll(u) == TRUE

check_robots_txt(u) ==
    IF crawl_robots.readable THEN u.page \notin crawl_robots.disallow ELSE TRUE

\* include_patterns and exclude_patterns; a pattern is given by the pages
\* whose URL re.search finds it in
NoPatterns == [include |-> {}, exclude |-> {}]
PatternChoices == {NoPatterns, [include |-> {{"p0", "p1"}}, exclude |-> {{"p2"}}]}

\* the depth test of _should_crawl_url
depth_exceeded_Never(depth) == FALSE

depth_exceeded(depth) == depth > crawl_max_depth

\* the test of _should_crawl_url for a URL already processed: its
\* normalized form is in visited_urls or in failed_urls
already_seen_Never(u, visited, failed) == FALSE

already_seen(u, visited, failed) ==
    normalize_url(u) \in visited \/ normalize_url(u) \in failed

\* _should_crawl_url(url, base_url, depth), with self.visited_urls and
\* self.failed_urls as they are at the call
should_crawl_url(u, base, depth, visited, failed) ==
    IF depth_exceeded(depth) THEN FALSE
    ELSE IF already_seen(u, visited, failed) THEN FALSE
    ELSE IF ~is_same_domain(u, base) THEN FALSE
    ELSE IF ~check_robots_txt(u) THEN FALSE
    ELSE IF crawl_patterns.include # {}
            /\ ~\E pat \in crawl_patterns.include : u.page \in pat THEN FALSE
    ELSE IF crawl_patterns.exclude # {}
            /\ \E pat \in crawl_patterns.exclude : u.page \in pat THEN FALSE
    ELSE TRUE

\* whether _should_crawl_url gets as far as _check_robots_txt, which reads
\* and caches the robots.txt of the URL's domain
reaches_robots_check(u, base, depth, visited, failed) ==
    /\ ~depth_exceeded(depth)
    /\ normalize_url(u) \notin visited
    /\ normalize_url(u) \notin failed
    /\ is_same_domain(u, base)

\* the links _extract_links returns: clean URLs (no query, no fragment, no
\* trailing slash), each once
LinkTargets == {Url("docs.example", "p0", ""), Url("docs.example", "p1", ""),
                Url("docs.example", "p2", ""), Url("other.example", "p1", "")}
LinkLists == {l \in SeqsUpTo(LinkTargets, MaxPageLinks) : NoDuplicates(l)}

\* what _fetch_page returns: an error, a page without content, or a page
\* with content and links
FetchResults ==
    {[kind |-> "error", links |-> <<>>], [kind |-> "empty", links |-> <<>>]}
        \cup {[kind |-> "page", links |-> l] : l \in LinkLists}

\* the links of a page that go into the queue, with their depth
RECURSIVE new_queue_entries(_, _, _, _, _)
new_queue_entries(links, base, depth, visited, failed) ==
    IF links = <<>> THEN <<>>
    ELSE (IF should_crawl_url(Head(links), base, depth, visited, failed)
          THEN <<[url |-> normalize_url(Head(links)), depth |-> depth]>>
          ELSE <<>>) \o new_queue_entries(Tail(links), base, depth, visited, failed)

\* the condition of crawl_documentation's while loop
loop_goes_on_OnePageMore(queue, pages) ==
    queue # <<>> /\ Len(pages) <= crawl_max_pages

loop_goes_on(queue, pages) ==
    queue # <<>> /\ Len(pages) < crawl_max_pages

Max(x, y) == IF x > y THEN x ELSE y

\* seq[:n]
slice_to(seq, n) ==
    IF n >= 0 THEN SubSeq(seq, 1, Min(n, Len(seq)))
    ELSE SubSeq(seq, 1, Max(0, Len(seq) + n))

\* the URLs of sitemap.xml (<loc> texts) and of the Sitemap lines of
\* robots.txt that crawl_with_sitemap may find
LocUrls == {Url("docs.example", "p1", ""), Url("docs.example", "p1", "/"),
            Url("DOCS.example", "p2", "?v=1"), Url("other.example", "p1", "")}
RobotsSitemapLines == {<<>>, <<Url("other.example", "p2", "")>>}

\* for loc in soup.find_all('loc'): kept when on the start URL's domain
same_domain_locs(locs, start) ==
    LET Same(u) == is_same_domain(u, start)
    IN  SelectSeq(locs, Same)

\* the except clause of crawl_with_sitemap calls crawl_documentation
except_falls_back_Raises == FALSE

except_falls_back == TRUE

NoResult == [status |-> "running", pages_scraped |-> 0]

InitCrawl ==
    /\ crawl_op \in {"crawl_documentation", "crawl_with_sitemap"}
    /\ crawl_start \in {Url("docs.example", "p0", t) : t \in {"", "/"}}
    /\ crawl_max_pages \in 0..MaxPages
    /\ crawl_max_depth \in 0..MaxDepth
    /\ crawl_patterns \in PatternChoices
    /\ crawl_robots \in RobotsFiles
    /\ crawl_pc = IF crawl_op = "crawl_documentation" THEN "doc_enter" ELSE "lookup"
    /\ crawl_ctx = "direct"
    /\ visited_urls = {}
    /\ failed_urls = {}
    /\ crawl_queue = <<>>
    /\ robots_cache = {}
    /\ crawled_pages = <<>>
    /\ found_urls = <<>>
    /\ url_list = <<>>
    /\ list_idx = 1
    /\ crawl_fetched = <<>>
    /\ crawl_calls = <<>>
    /\ crawl_result = NoResult

IdleCrawl ==
    /\ crawl_op = "idle"
    /\ crawl_start = Url("docs.example", "p0", "")
    /\ crawl_max_pages = 0
    /\ crawl_max_depth = 0
    /\ crawl_patterns = NoPatterns
    /\ crawl_robots = RobotsUnreadable
    /\ crawl_pc = "done"
    /\ crawl_ctx = "direct"
    /\ visited_urls = {}
    /\ failed_urls = {}
    /\ crawl_queue = <<>>
    /\ robots_cache = {}
    /\ crawled_pages = <<>>
    /\ found_urls = <<>>
    /\ url_list = <<>>
    /\ list_idx = 1
    /\ crawl_fetched = <<>>
    /\ crawl_calls = <<>>
    /\ crawl_result = NoResult

crawlConfig == <<crawl_op, crawl_start, crawl_max_pages, crawl_max_depth, crawl_patterns,
                 crawl_robots>>

\* crawl_documentation, up to the loop: the sets are cleared and the queue
\* holds the normalized start URL at depth 0
DocEnter ==
    /\ crawl_pc = "doc_enter"
    /\ visited_urls' = {}
    /\ failed_urls' = {}
    /\ crawl_queue' = <<[url |-> normalize_url(crawl_start), depth |-> 0]>>
    /\ crawled_pages' = <<>>
    /\ crawl_pc' = "doc_loop"
    /\ UNCHANGED <<crawlConfig, crawl_ctx, robots_cache, found_urls, url_list, list_idx,
                   crawl_fetched, crawl_calls, crawl_result>>
    /\ UNCHANGED notCrawlVars

\* one turn of the while loop of crawl_documentation
DocIterate ==
    /\ crawl_pc = "doc_loop"
    /\ loop_goes_on(crawl_queue, crawled_pages)
    /\ LET url == Head(crawl_queue).url
           depth == Head(crawl_queue).depth
           rest == Tail(crawl_queue)
           cache == IF reaches_robots_check(url, crawl_start, depth, visited_urls,
                                            failed_urls)
                    THEN robots_cache \cup {get_domain(url)} ELSE robots_cache
           visited == visited_urls \cup {url}
       IN  IF ~should_crawl_url(url, crawl_start, depth, visited_urls, failed_urls)
           THEN /\ crawl_queue' = rest
                /\ robots_cache' = cache
                /\ UNCHANGED <<visited_urls, failed_urls, crawled_pages, crawl_fetched>>
           ELSE \E result \in FetchResults :
                /\ visited_urls' = visited
                /\ crawl_fetched' = Append(crawl_fetched,
                                           [url |-> url, depth |-> depth,
                                            by |-> "crawl_documentation",
                                            from |-> crawl_ctx])
                /\ CASE result.kind = "error" ->
                          /\ failed_urls' = failed_urls \cup {url}
                          /\ crawl_queue' = rest
                          /\ robots_cache' = cache
                          /\ UNCHANGED crawled_pages
                     [] result.kind = "empty" ->
                          /\ crawl_queue' = rest
                          /\ robots_cache' = cache
                          /\ UNCHANGED <<failed_urls, crawled_pages>>
                     [] OTHER ->
                          /\ crawled_pages' = Append(crawled_pages, url)
                          /\ crawl_queue' =
                                 rest \o new_queue_entries(result.links, crawl_start,
                                                           depth + 1, visited, failed_urls)
                          /\ robots_cache' =
                                 cache \cup {get_domain(result.links[i]) : i \in
                                     {j \in 1..Len(result.links) :
                                         reaches_robots_check(result.links[j], crawl_start,
                                                              depth + 1, visited, failed_urls)}}
                          /\ UNCHANGED failed_urls
    /\ crawl_pc' = "doc_loop"
    /\ UNCHANGED <<crawlConfig, crawl_ctx, found_urls, url_list, list_idx, crawl_calls,
                   crawl_result>>
    /\ UNCHANGED notCrawlVars

\* after the loop of crawl_documentation: the exception 'No pages were
\* successfully crawled', or the result.  Raised inside the try block of
\* crawl_with_sitemap, the exception starts the except clause's crawl.
DocExit ==
    /\ crawl_pc = "doc_loop"
    /\ ~loop_goes_on(crawl_queue, crawled_pages)
    /\ LET raised == crawled_pages = <<>>
           call == [call |-> "crawl_documentation", from |-> crawl_ctx,
                    outcome |-> IF raised THEN "raised" ELSE "returned"]
       IN  /\ crawl_calls' = Append(crawl_calls, call)
           /\ IF raised /\ crawl_ctx = "try" /\ except_falls_back
              THEN /\ crawl_pc' = "doc_enter"
                   /\ crawl_ctx' = "except"
                   /\ UNCHANGED crawl_result
              ELSE /\ crawl_pc' = "done"
                   /\ crawl_result' = [status |-> IF raised THEN "raised" ELSE "returned",
                                       pages_scraped |-> Len(crawled_pages)]
                   /\ UNCHANGED crawl_ctx
    /\ UNCHANGED <<crawlConfig, visited_urls, failed_urls, crawl_queue, robots_cache,
                   crawled_pages, found_urls, url_list, list_idx, crawl_fetched>>
    /\ UNCHANGED notCrawlVars

\* crawl_with_sitemap, up to its if: the GETs of sitemap.xml and robots.txt
\* (a response that is not 200, or an exception, adds nothing), then
\* _crawl_url_list(found_urls[:max_pages]) or crawl_documentation(start_url)
SitemapLookup ==
    /\ crawl_pc = "lookup"
    /\ \E locs \in SeqsUpTo(LocUrls, MaxLocs), lines \in RobotsSitemapLines :
           LET found == same_domain_locs(locs, crawl_start) \o lines
           IN  /\ found_urls' = found
               /\ IF found # <<>>
                  THEN /\ url_list' = slice_to(found, crawl_max_pages)
                       /\ crawl_pc' = "list_loop"
                       /\ UNCHANGED crawl_ctx
                  ELSE /\ crawl_pc' = "doc_enter"
                       /\ crawl_ctx' = "try"
                       /\ UNCHANGED url_list
    /\ list_idx' = 1
    /\ crawled_pages' = <<>>
    /\ UNCHANGED <<crawlConfig, visited_urls, failed_urls, crawl_queue, robots_cache,
                   crawl_fetched, crawl_calls, crawl_result>>
    /\ UNCHANGED notCrawlVars

\* one turn of the for loop of _crawl_url_list
ListIterate ==
    /\ crawl_pc = "list_loop"
    /\ list_idx <= Len(url_list)
    /\ LET url == url_list[list_idx]
       IN  IF normalize_url(url) \in visited_urls
           THEN UNCHANGED <<visited_urls, failed_urls, crawled_pages, crawl_fetched>>
           ELSE \E result \in FetchResults :
                /\ crawl_fetched' = Append(crawl_fetched,
                                           [url |-> url, depth |-> 0, by |-> "_crawl_url_list",
                                            from |-> "try"])
                /\ visited_urls' = visited_urls \cup {normalize_url(url)}
                /\ failed_urls' = IF result.kind = "error"
                                  THEN failed_urls \cup {url} ELSE failed_urls
                /\ crawled_pages' = IF result.kind = "page"
                                    THEN Append(crawled_pages, url) ELSE crawled_pages
    /\ list_idx' = list_idx + 1
    /\ UNCHANGED <<crawlConfig, crawl_pc, crawl_ctx, crawl_queue, robots_cache, found_urls,
                   url_list, crawl_calls, crawl_result>>
    /\ UNCHANGED notCrawlVars

\* after the loop of _crawl_url_list: the exception 'No pages were
\* successfully crawled from sitemap', which the except clause of
\* crawl_with_sitemap answers with crawl_documentation(start_url), or the
\* result
ListExit ==
    /\ crawl_pc = "list_loop"
    /\ list_idx > Len(url_list)
    /\ LET raised == crawled_pages = <<>>
           call == [call |-> "_crawl_url_list", from |-> "try",
                    outcome |-> IF raised THEN "raised" ELSE "returned"]
       IN  /\ crawl_calls' = Append(crawl_calls, call)
           /\ IF raised /\ except_falls_back
              THEN /\ crawl_pc' = "doc_enter"
                   /\ crawl_ctx' = "except"
                   /\ UNCHANGED crawl_result
              ELSE /\ crawl_pc' = "done"
                   /\ crawl_result' = [status |-> IF raised THEN "raised" ELSE "returned",
                                       pages_scraped |-> Len(crawled_pages)]
                   /\ UNCHANGED crawl_ctx
    /\ UNCHANGED <<crawlConfig, visited_urls, failed_urls, crawl_queue, robots_cache,
                   crawled_pages, found_urls, url_list, list_idx, crawl_fetched>>
    /\ UNCHANGED notCrawlVars

NextCrawl ==
    \/ DocEnter
    \/ DocIterate
    \/ DocExit
    \/ SitemapLookup
    \/ ListIterate
    \/ ListExit
(***************************************************************************)
(* The session table of the web application (src/crawler_app.py)           *)
(*   active_sessions, the start-crawling route, the session threads'       *)
(*   status, cleanup_old_sessions                                          *)
(*                                                                         *)
(* Time is what datetime.now() reads, in seconds since the application     *)
(* started.  The route handlers and cleanup_old_sessions hold session_lock *)
(* for all they do with active_sessions, so each is one step.              *)
(***************************************************************************)

\* Most sessions created, and the last reading of the clock
MaxSessions == 2
MaxClock == 3602

\* "Remove sessions older than 1 hour": total_seconds() > 3600
HourSeconds == 3600

\* how far the clock moves between two steps
TickSeconds == {1800, 1801}

SessionIds == 1..MaxSessions

\* the values CrawlerWebInterface.status takes
Statuses == {"idle", "initializing", "discovering", "crawling", "completed", "error",
             "stopped"}

\* what start_crawling (with crawl_with_progress) sets status to next: an
\* exception anywhere in its try block gives "error"; building the
\* CrawlerConfig is where the keywords it is called with raise
next_statuses(status) ==
    CASE status = "idle" -> {"initializing", "error"}
      [] status = "initializing" ->
             IF config_raises_TypeError(StartCrawlingKeywords)
             THEN {"error"} ELSE {"discovering", "error"}
      [] status = "discovering" -> {"crawling", "error"}
      [] status = "crawling" -> {"completed", "stopped", "error"}
      [] OTHER -> {}

\* crawler.status in ['completed', 'error', 'stopped']
is_finished_Always(status) == TRUE

is_finished(status) == status \in {"completed", "error", "stopped"}

\* (current_time - started_time).total_seconds() > 3600
older_than_hour(current_time, started_time) ==
    current_time - started_time > HourSeconds

\* the to_remove list cleanup_old_sessions builds from active_sessions
sessions_to_remove(sessions, current_time) ==
    {id \in DOMAIN sessions :
        /\ is_finished(sessions[id].status)
        /\ older_than_hour(current_time, sessions[id].started_at)}

\* del active_sessions[session_id] for each id of to_remove
del_sessions(sessions, ids) == [id \in DOMAIN sessions \ ids |-> sessions[id]]

InitSessions ==
    /\ active_sessions = << >>
    /\ sess_clock = 0
    /\ sess_created = 0
    /\ to_remove = {}
    /\ sess_last = "none"

IdleSessions ==
    /\ active_sessions = << >>
    /\ sess_clock = 0
    /\ sess_created = 0
    /\ to_remove = {}
    /\ sess_last = "none"

\* the start-crawling route: a new session, its crawler idle, started_at
\* the time of the request
SessStartCrawling ==
    /\ sess_created < MaxSessions
    /\ LET session_id == sess_created + 1
       IN  active_sessions' =
               [id \in DOMAIN active_sessions \cup {session_id} |->
                   IF id = session_id
                   THEN [status |-> "idle", started_at |-> sess_clock]
                   ELSE active_sessions[id]]
    /\ sess_created' = sess_created + 1
    /\ sess_last' = "start"
    /\ UNCHANGED <<sess_clock, to_remove>>
    /\ UNCHANGED notSessVars

\* a session's thread sets the status of its crawler
SessThreadStep(id) ==
    /\ id \in DOMAIN active_sessions
    /\ \E status \in next_statuses(active_sessions[id].status) :
           active_sessions' = [active_sessions EXCEPT ![id].status = status]
    /\ sess_last' = "thread"
    /\ UNCHANGED <<sess_clock, sess_created, to_remove>>
    /\ UNCHANGED notSessVars

\* time passes
SessTick ==
    /\ \E d \in TickSeconds :
           /\ sess_clock + d <= MaxClock
           /\ sess_clock' = sess_clock + d
    /\ sess_last' = "tick"
    /\ UNCHANGED <<active_sessions, sess_created, to_remove>>
    /\ UNCHANGED notSessVars

\* cleanup_old_sessions
CleanupOldSessions ==
    /\ to_remove' = sessions_to_remove(active_sessions, sess_clock)
    /\ active_sessions' = del_sessions(active_sessions, to_remove')
    /\ sess_last' = "cleanup"
    /\ UNCHANGED <<sess_clock, sess_created>>
    /\ UNCHANGED notSessVars

NextSessions ==
    \/ SessStartCrawling
    \/ \E id \in SessionIds : SessThreadStep(id)
    \/ SessTick
    \/ CleanupOldSessions

(***************************************************************************)
(* Specifications                                                          *)
(***************************************************************************)

InitRelevanceSpec == InitRelevance /\ IdleRequest /\ IdleXml /\ IdlePool /\ IdleWeb /\ IdleDiscovery /\ IdleCrawl /\ IdleSessions

SpecRelevance == InitRelevanceSpec /\ [][NextRelevance]_vars

InitRequestSpec == InitRequest /\ IdleRelevance /\ IdleXml /\ IdlePool /\ IdleWeb /\ IdleDiscovery /\ IdleCrawl /\ IdleSessions

SpecRequest == InitRequestSpec /\ [][NextRequest]_vars

InitXmlSpec == InitXml /\ IdleRelevance /\ IdleRequest /\ IdlePool /\ IdleWeb /\ IdleDiscovery /\ IdleCrawl /\ IdleSessions

SpecXml == InitXmlSpec /\ [][NextXml]_vars

InitPoolSpec == InitPool /\ IdleRequest /\ IdleXml /\ IdleWeb /\ IdleDiscovery /\ IdleCrawl /\ IdleSessions

SpecPool == InitPoolSpec /\ [][NextPool]_vars

InitWebSpec == InitWeb /\ PoolRelevanceConfig /\ IdleRequest /\ IdleXml /\ IdleDiscovery /\ IdleCrawl /\ IdleSessions

SpecWeb == InitWebSpec /\ [][NextWeb]_vars


InitDiscoverySpec ==
    InitDiscovery /\ InitDiscoveryCrawler /\ IdleRequest /\ IdleXml /\ IdleWeb
        /\ IdleCrawl /\ IdleSessions

SpecDiscovery == InitDiscoverySpec /\ [][NextDiscovery]_vars

\* process_selected_pages alone.  The worker threads and the calling thread
\* are scheduled by the operating system and every request ends (timeout,
\* bounded retries), so a step that stays possible is eventually taken.
NextPages ==
    \/ \E i \in TaskIds : PageFetch(i)
    \/ \E i \in TaskIds : PageCheck(i)
    \/ \E i \in TaskIds : PageStore(i)
    \/ \E i \in TaskIds : Collect(i)
    \/ Return

\* (the formats only decide which files a page writes: none or one is
\* enough here)
InitPagesSpec ==
    InitPages /\ pool_formats \in {{}, {"markdown"}} /\ InitPoolCommon
        /\ PoolRelevanceConfig /\ IdleRequest /\ IdleXml /\ IdleWeb /\ IdleDiscovery
        /\ IdleCrawl /\ IdleSessions

SpecPages == InitPagesSpec /\ [][NextPages]_vars /\ WF_vars(NextPages)

InitCrawlSpec ==
    InitCrawl /\ IdleRelevance /\ IdleRequest /\ IdleXml /\ IdlePool /\ IdleWeb
        /\ IdleDiscovery /\ IdleSessions

SpecCrawl == InitCrawlSpec /\ [][NextCrawl]_vars

\* the session table of the web application
InitSessionsSpec ==
    InitSessions /\ IdleRelevance /\ IdleRequest /\ IdleXml /\ IdlePool /\ IdleWeb
        /\ IdleDiscovery /\ IdleCrawl

SpecSessions == InitSessionsSpec /\ [][NextSessions]_vars

(***************************************************************************)
(* Claims                                                                  *)
(***************************************************************************)

\* The URL's language as the claim reads it: the hl query parameter or a
\* /<lang>/ path segment.
UrlLanguageIs(url, language) ==
    \/ url_language(url) = language
    \/ Contains(url.path, LangSegment(language))

\* C1 (as stated): is_relevant_url returns true only if the host equals the
\* configured domain, the path starts with a configured base path, and the
\* URL's language (hl parameter or /<lang>/ path segment) is the configured
\* language.
C1_RelevantOnlyIfLanguageMatches ==
    (rel_called /\ rel_result) =>
        /\ rel_url.netloc = rel_domain
        /\ path_matches(rel_url.path, rel_base_paths)
        /\ UrlLanguageIs(rel_url, rel_language)

\* C1 (amended): is_relevant_url returns true only if the host equals the
\* configured domain, the path starts with a configured base path, and
\* either hl equals the language, or the path contains /<lang>/ or begins
\* with /<lang>, or (language 'en' only) the URL has no hl parameter and no
\* non-English path segment.
C1_RelevantOnlyIf ==
    (rel_called /\ rel_result) =>
        /\ rel_url.netloc = rel_domain
        /\ path_matches(rel_url.path, rel_base_paths)
        /\ \/ UrlLanguageIs(rel_url, rel_language)
           \/ StartsWith(rel_url.path, LangPrefix(rel_language))
           \/ /\ rel_language = "en"
              /\ url_language(rel_url) = "None"
              /\ ~ \E seg \in NonEnglishSegments : Contains(rel_url.path, seg)

\* A URL with no language indicator at all, accepted as English.
C1_Witness ==
    /\ rel_called /\ rel_result
    /\ rel_language = "en"
    /\ url_language(rel_url) = "None"
    /\ ~Contains(rel_url.path, LangSegment("en"))
    /\ ~StartsWith(rel_url.path, LangPrefix("en"))
\* number of failed GETs so far
FailedAttempts == Cardinality({i \in 1..Len(req_outcomes) : req_outcomes[i] # "ok"})

\* C6: make_request never returns without a successful response: when it
\* returns, the last attempt succeeded; when every attempt failed it raises
\* the error of the last attempt; for every max_retries >= 0.
C6_NeverReturnsWithoutResponse ==
    /\ req_pc = "returned" =>
          /\ req_result = "response"
          /\ req_outcomes # <<>>
          /\ req_outcomes[Len(req_outcomes)] = "ok"
    /\ req_pc = "raised" =>
          /\ req_outcomes # <<>>
          /\ req_result = req_outcomes[Len(req_outcomes)]

\* C7: at most max_retries GETs; a success is the last GET made; after the
\* k-th failure with k < max_retries the call has slept retry_delay * k, and
\* there is no sleep after the final failure.
C7_LinearBackoff ==
    /\ Len(req_outcomes) <= req_max_retries
    /\ \A i \in 1..Len(req_outcomes) : req_outcomes[i] = "ok" => i = Len(req_outcomes)
    /\ Len(req_sleeps) = Cardinality({k \in 1..FailedAttempts : k < req_max_retries})
    /\ \A k \in 1..Len(req_sleeps) : req_sleeps[k] = req_retry_delay * k
    /\ req_pc = "raised" => FailedAttempts = req_max_retries
    /\ (req_pc = "returned" /\ req_result = "response") =>
           Len(req_outcomes) = FailedAttempts + 1

\* Two failures followed by a success, with a positive delay
C7_Witness ==
    /\ req_pc = "returned"
    /\ req_result = "response"
    /\ FailedAttempts = 2
    /\ req_retry_delay > 0
    /\ req_sleeps = <<req_retry_delay, 2 * req_retry_delay>>

Range(seq) == {seq[i] : i \in 1..Len(seq)}

\* every element of the document, the root included
AllElements(doc) == {doc.root} \cup Range(doc.desc)

\* C4 (as stated): for a well-formed document the result is exactly the set
\* of text values of the document's <loc> elements.
C4_ExactlyLocTexts ==
    (xml_called /\ xml_body \in Documents) =>
        Range(xml_result) =
            {e.text : e \in {x \in AllElements(xml_body) : x.tag = "loc" /\ x.text # "None"}}

\* C4 (amended): for a well-formed document the result is exactly the
\* non-empty text values of the <loc> elements below the root that are in
\* the sitemaps.org 0.9 namespace, in document order.
C4_ExactlyNamespacedLocTexts ==
    (xml_called /\ xml_body \in Documents) =>
        /\ Range(xml_result) =
               {e.text : e \in {x \in Range(xml_body.desc) :
                                   x.ns = SitemapNS /\ x.tag = "loc" /\ x.text # "None"}}
        /\ \A i, j \in 1..Len(xml_result) : i < j =>
               \E k, l \in 1..Len(xml_body.desc) :
                   /\ k < l
                   /\ xml_body.desc[k].text = xml_result[i]
                   /\ xml_body.desc[l].text = xml_result[j]
                   /\ xml_body.desc[k].tag = "loc" /\ xml_body.desc[l].tag = "loc"
                   /\ xml_body.desc[k].ns = SitemapNS /\ xml_body.desc[l].ns = SitemapNS

\* A document with a namespaced <loc> next to one in no namespace: only the
\* first is returned.
C4_Witness ==
    /\ xml_called
    /\ xml_body \in Documents
    /\ xml_result = <<"a">>
    /\ \E k \in 1..Len(xml_body.desc) :
          xml_body.desc[k] = [ns |-> "", tag |-> "loc", text |-> "b"]

\* C2: a process_page whose fetched content hashes to the value stored for
\* its URL is skipped: the step that detects it writes no file, leaves
\* page_states as it is, and ends the task.
C2_UnchangedPageSkipped ==
    [][\A i \in TaskIds :
          ( /\ pool_op = "pages"
            /\ task_pc[i] = "check"
            /\ task_pc'[i] # "check"
            /\ pool_items[i] \in DOMAIN page_states
            /\ page_states[pool_items[i]] = calculate_hash(task_resp[i]) )
          => ( /\ files' = files
               /\ page_states' = page_states
               /\ task_pc'[i] = "done"
               /\ task_out'[i] = "skipped" )]_vars

\* A page skipped although every format was requested
C2_Witness ==
    /\ pool_op = "pages"
    /\ pool_formats = FormatFlags
    /\ main_pc = "returned"
    /\ \E i \in TaskIds : task_out[i] = "skipped" /\ urlpath(pool_items[i]) # <<>>
    /\ files = {}
    /\ page_states = page_states0

\* process_page run alone on page_states ps
SeqPage(ps, u) ==
    IF env_fetch[u] = ErrBody THEN ps
    ELSE LET h == calculate_hash(env_fetch[u].text)
         IN  IF unchanged(ps, u, h) THEN ps
             ELSE IF pool_formats # {} /\ create_filepath_raises(urlpath(u)) THEN ps
             ELSE store_page_state(ps, u, h)

\* the items processed one at a time, in list order
RECURSIVE SeqPages(_, _)
SeqPages(ps, items) ==
    IF items = <<>> THEN ps ELSE SeqPages(SeqPage(ps, Head(items)), Tail(items))

RECURSIVE SeqScrape(_, _)
SeqScrape(cont, items) ==
    IF items = <<>> THEN cont
    ELSE SeqScrape(merge_content(cont, Head(items),
                                 scrape_single_page(Head(items), pool_formats)),
                   Tail(items))

RECURSIVE SeqSitemap(_, _)
SeqSitemap(sm, items) ==
    IF items = <<>> THEN sm
    ELSE SeqSitemap(merge_sitemap(sm, process_sitemap_url(Head(items)).pairs), Tail(items))

\* C3: whatever the number of workers and the order in which the futures
\* complete, the mapping an operation ends with is the one that processing
\* the list one item at a time, in order, produces.
C3_SameAsSequential ==
    main_pc = "returned" =>
        /\ pool_op = "pages" => page_states = SeqPages(page_states0, pool_items)
        /\ pool_op = "scrape" => content = SeqScrape(EmptyMap, pool_items)
        /\ pool_op = "sitemap" => sitemap = SeqSitemap(EmptyMap, pool_items)

\* Two pages with different content scraped by two workers, collected in
\* the reverse of the list order
C3_Witness ==
    /\ pool_op = "scrape"
    /\ pool_workers = 2
    /\ Len(pool_items) = 2
    /\ pool_items[1] # pool_items[2]
    /\ task_pc[2] = "collected"
    /\ task_pc[1] = "done"
    /\ DOMAIN content = {pool_items[2]}
    /\ env_fetch[pool_items[1]] \notin {ErrBody, env_fetch[pool_items[2]]}
    /\ pool_formats # {}

\* some step of the operation can be taken: a task can start or go on, a
\* finished future can be collected, or the operation can return
CanGoOn ==
    \/ \E i \in TaskIds : CanStart(i) \/ task_pc[i] \in {"check", "store", "urls", "done"}
    \/ main_pc = "locked"
    \/ \A i \in TaskIds : task_pc[i] = "collected"

\* C5: a failing page or sitemap URL does not abort the operation: until it
\* has returned the operation can always go on, and when it has returned
\* every submitted task was run to its end, every URL of every chunk was
\* processed, and what the other items yield is in the result.
C5_FailureDoesNotAbort ==
    /\ (pool_op # "web" /\ main_pc # "returned") => CanGoOn
    /\ main_pc = "returned" =>
          /\ \A i \in TaskIds : task_pc[i] = "collected" /\ task_out[i] # "none"
          /\ pool_op = "sitemap" =>
                /\ \A i \in TaskIds : task_pos[i] = Len(Chunk(i))
                /\ \A k \in 1..Len(pool_items) :
                      LET pairs == process_sitemap_url(pool_items[k]).pairs
                      IN  \A n \in 1..Len(pairs) :
                              /\ pairs[n][1] \in DOMAIN sitemap
                              /\ sitemap[pairs[n][1]] = pairs[n][2]
          /\ pool_op = "pages" =>
                \A k \in 1..Len(pool_items) :
                    task_out[k] = "written" =>
                        /\ pool_items[k] \in DOMAIN page_states
                        /\ page_states[pool_items[k]] =
                               calculate_hash(env_fetch[pool_items[k]].text)

\* A chunk whose first URL fails and whose second URL is still processed
\* and lands in the sitemap
C5_Witness ==
    /\ pool_op = "sitemap"
    /\ main_pc = "returned"
    /\ pool_chunk_size = 2
    /\ Len(pool_items) = 2
    /\ process_sitemap_url(pool_items[1]).errors = 1
    /\ pool_items[2] \in DOMAIN sitemap
    /\ stats.errors = 1

\* C8: every page is counted exactly once: 'errors' counts the pages whose
\* processing failed, 'processed' the pages written or skipped, and when
\* process_selected_pages returns their sum is the number of selected URLs.
C8_CountedOnce ==
    pool_op = "pages" =>
        /\ stats.errors = Cardinality({i \in TaskIds : task_out[i] = "failed"})
        /\ stats.processed =
               Cardinality({i \in TaskIds : task_out[i] \in {"written", "skipped"}})
        /\ main_pc = "returned" => stats.processed + stats.errors = Len(pool_items)

\* One page failed and one skipped
C8_Witness ==
    /\ pool_op = "pages"
    /\ main_pc = "returned"
    /\ \E i, j \in TaskIds : task_out[i] = "failed" /\ task_out[j] = "skipped"
    /\ stats.errors = 1
    /\ stats.processed = 1

\* C10: every write to the sitemap or to page_states is made while
\* sitemap_lock is held.
C10_WritesHoldLock ==
    [][(page_states' # page_states \/ sitemap' # sitemap) => sitemap_lock # "free"]_vars


\* C9: every selected URL whose fetch failed during crawl_with_progress has
\* an entry in error_log and is not in scraped_content.
C9_FetchFailureRecorded ==
    \A k \in 1..(web_idx - 1) :
        (pool_op = "web" /\ env_fetch[pool_items[k]] = ErrBody) =>
            /\ \E n \in 1..Len(web_error_log) : web_error_log[n] = pool_items[k]
            /\ pool_items[k] \notin DOMAIN web_scraped_content


\* C19: once stop_crawling has been called on a session the stop request
\* stays, the crawl begins no further URL, and the session thread ends with
\* the status 'stopped', whenever in the session's life the request came.
C19_StopStopsSession ==
    [][web_stop_requested =>
          /\ web_stop_requested'
          /\ web_pc = "loop" => web_pc' # "scrape"
          /\ (web_pc # "returned" /\ web_pc' = "returned") => web_status' = "stopped"]_vars

(***************************************************************************)
(* Claims about page discovery (SpecDiscovery)                             *)
(***************************************************************************)

\* the links of the fetched page that pass both filters
PassingLinks ==
    {u \in parse_html_sitemap(disc_page, BaseUrl) :
         is_relevant_url(UrlRecord(u), rel_language)}

\* C11: when find_sitemap_url has found no XML sitemap and returned the base
\* URL, parse_sitemap discovers links on that HTML page, and when it returns
\* every link of the page that passes is_documentation_link and
\* is_relevant_url is a key of the crawler's sitemap mapping.
C11_HtmlFallbackFillsSitemap ==
    (disc_pc = "returned" /\ disc_sitemap_url = BaseUrl)
        => \A u \in PassingLinks : u \in DOMAIN sitemap

\* index of the first common location that answers 200, 0 when none does
FirstCommon200 ==
    IF \E i \in 1..Len(common_paths) : disc_common[i] = "200"
    THEN CHOOSE i \in 1..Len(common_paths) :
             /\ disc_common[i] = "200"
             /\ \A j \in 1..(i - 1) : disc_common[j] # "200"
    ELSE 0

\* C12: find_sitemap_url returns the Sitemap directive of robots.txt when
\* there is one; whenever robots.txt gives none (no directive, a non-200
\* status, or a failed request) it requests the common locations in their
\* order up to the first that answers 200 and returns that one; it returns
\* the base URL only when none of them answers 200.
C12_LookupChain ==
    disc_sitemap_url # "unset" =>
        IF disc_robots.kind = "directive"
        THEN /\ disc_sitemap_url = disc_robots.url
             /\ disc_gets = <<"/robots.txt">>
        ELSE LET k == FirstCommon200
                 tried == IF k = 0 THEN Len(common_paths) ELSE k
             IN  /\ disc_sitemap_url = IF k = 0 THEN BaseUrl ELSE common_paths[k]
                 /\ disc_gets = <<"/robots.txt">> \o SubSeq(common_paths, 1, tried)

(***************************************************************************)
(* Claims about the progress counter, completion and the state file        *)
(***************************************************************************)

\* number of input items of the futures in S
RECURSIVE ItemsOf(_)
ItemsOf(S) ==
    IF S = {} THEN 0
    ELSE LET i == CHOOSE j \in S : TRUE
         IN  Len(Chunk(i)) + ItemsOf(S \ {i})

\* C13: the progress counter advances only when a future has completed, by
\* the number of items of that future, so it always equals the number of
\* items of the futures collected so far; when parallel_sitemap_processing
\* or process_selected_pages returns it equals the number of input items.
C13_ProgressCounter ==
    pool_op \in {"pages", "sitemap"} =>
        /\ pbar = ItemsOf({i \in TaskIds : task_pc[i] = "collected"})
        /\ main_pc = "returned" => pbar = Len(pool_items)

\* Two sitemap URLs in one chunk, one of them failing, counted as two
C13_Witness ==
    /\ pool_op = "sitemap"
    /\ main_pc = "returned"
    /\ pool_chunk_size = 2
    /\ Len(pool_items) = 2
    /\ stats.errors = 1
    /\ pbar = 2

\* C14: no task of process_selected_pages is cancelled: every submitted
\* task runs to its end, the state file is written only when all of them
\* have completed, and the method returns, with the state file saved, only
\* after that.
C14_NoCancellation ==
    /\ [](main_pc = "returned" =>
              /\ \A i \in TaskIds : task_pc[i] = "collected" /\ task_out[i] # "none"
              /\ state_file = save_state(page_states))
    /\ [][state_file' # state_file =>
              \A i \in TaskIds : task_pc[i] = "collected" /\ task_out[i] # "none"]_vars
    /\ \A i \in 1..MaxItems : (i \in TaskIds) ~> (i \in TaskIds /\ task_out[i] # "none")
    /\ <>(main_pc = "returned")

\* Two pages on a single worker: the second waited in the queue, both ran,
\* and the state file holds the new mapping
C14_Witness ==
    /\ pool_op = "pages"
    /\ main_pc = "returned"
    /\ pool_workers = 1
    /\ Len(pool_items) = 2
    /\ \A i \in TaskIds : task_out[i] = "written"
    /\ state_file = save_state(page_states)
    /\ page_states # page_states0

\* the selected URLs whose page was fetched and written in this run
WrittenUrls == {pool_items[i] : i \in {j \in TaskIds : task_out[j] = "written"}}

\* C15: after process_selected_pages has returned, the state file holds
\* exactly the in-memory mapping and a crawler created afterwards loads that
\* mapping; a URL fetched and written in this run maps to the hash of the
\* content fetched in this run, every other URL keeps the hash it had.
C15_StateFilePersisted ==
    (pool_op = "pages" /\ main_pc = "returned") =>
        /\ state_file = save_state(page_states)
        /\ load_state(state_file) = page_states
        /\ DOMAIN page_states = DOMAIN page_states0 \cup WrittenUrls
        /\ \A u \in DOMAIN page_states :
              IF u \in WrittenUrls
              THEN page_states[u] = calculate_hash(env_fetch[u].text)
              ELSE page_states[u] = page_states0[u]

\* One page written with new content, one stored page not selected
C15_Witness ==
    /\ pool_op = "pages"
    /\ main_pc = "returned"
    /\ WrittenUrls = {"a"}
    /\ page_states0 = [u \in {"a", "b"} |-> calculate_hash("c1")]
    /\ pool_items = <<"a">>
    /\ page_states["a"] = calculate_hash("c2")
    /\ load_state(state_file) = page_states

(***************************************************************************)
(* Claims about DocumentationCrawler (SpecCrawl)                           *)
(***************************************************************************)

DocFetches ==
    {crawl_fetched[i] : i \in {j \in 1..Len(crawl_fetched) :
                                   crawl_fetched[j].by = "crawl_documentation"}}

\* C17: crawl_documentation fetches no page whose crawl depth exceeds
\* max_depth; the start URL has depth 0 and a link found on a page of
\* depth d has depth d + 1.
C17_DepthWithinMax ==
    \A f \in DocFetches : f.depth <= crawl_max_depth

\* a page fetched at the deepest level allowed, below the start URL
C17_Witness ==
    /\ crawl_op = "crawl_documentation"
    /\ crawl_pc = "done"
    /\ crawl_max_depth = MaxDepth
    /\ \E f \in DocFetches : f.depth = crawl_max_depth /\ f.depth > 0
    /\ \E f \in DocFetches : f.depth = 0

\* C18: crawl_with_sitemap calls crawl_documentation(start_url) whenever the
\* sitemap lookup found no URL and whenever _crawl_url_list failed, and it
\* raises only when that fallback crawl has raised; otherwise it returns
\* what the last call returned.
C18_FallsBack ==
    (crawl_op = "crawl_with_sitemap" /\ crawl_pc = "done") =>
        LET n == Len(crawl_calls)
        IN  /\ n >= 1
            /\ found_urls = <<>> => crawl_calls[1].call = "crawl_documentation"
            /\ \A i \in 1..n :
                  (crawl_calls[i].call = "_crawl_url_list" /\ crawl_calls[i].outcome = "raised")
                      => (i < n /\ crawl_calls[i + 1].call = "crawl_documentation")
            /\ crawl_result.status = crawl_calls[n].outcome
            /\ crawl_result.status = "raised" =>
                  /\ crawl_calls[n].call = "crawl_documentation"
                  /\ crawl_calls[n].from = "except"

\* the sitemap crawl failed and the fallback crawl returned a result
C18_Witness ==
    /\ crawl_op = "crawl_with_sitemap"
    /\ crawl_pc = "done"
    /\ Len(crawl_calls) = 2
    /\ crawl_calls[1].call = "_crawl_url_list"
    /\ crawl_calls[1].outcome = "raised"
    /\ crawl_calls[2].call = "crawl_documentation"
    /\ crawl_result.status = "returned"
    /\ crawl_result.pages_scraped >= 1

C22_SameDomain ==
    \A i \in 1..Len(crawl_fetched) : is_same_domain(crawl_fetched[i].url, crawl_start)

\* the fetches of one call of crawl_documentation: the direct call, the
\* call in the try block of crawl_with_sitemap, or the one of its except
\* clause
CallFetches(ctx) ==
    SelectSeq(crawl_fetched,
              LAMBDA f : f.by = "crawl_documentation" /\ f.from = ctx)

\* C23: within one call of crawl_documentation no normalized URL is fetched
\* more than once, also when several pages link to it and the queue holds
\* it several times.
C23_FetchedOnce ==
    \A ctx \in {"direct", "try", "except"} :
        \A i, j \in 1..Len(CallFetches(ctx)) :
            normalize_url(CallFetches(ctx)[i].url) = normalize_url(CallFetches(ctx)[j].url)
                => i = j

\* a URL that two pages linked to was queued twice; it has been fetched
\* once and its second queue entry is about to be taken from the queue
C23_Witness ==
    /\ crawl_op = "crawl_documentation"
    /\ crawl_pc = "doc_loop"
    /\ loop_goes_on(crawl_queue, crawled_pages)
    /\ Head(crawl_queue).url \in visited_urls
    /\ Len(SelectSeq(CallFetches("direct"),
                     LAMBDA f : normalize_url(f.url) = Head(crawl_queue).url)) = 1
    /\ Len(crawl_fetched) >= 3

C21_CleanupRemovesOnlyOldFinished ==
    [][sess_last' = "cleanup" =>
          /\ DOMAIN active_sessions' \subseteq DOMAIN active_sessions
          /\ \A id \in DOMAIN active_sessions :
                IF id \in DOMAIN active_sessions'
                THEN active_sessions'[id] = active_sessions[id]
                ELSE /\ active_sessions[id].status \in {"completed", "error", "stopped"}
                     /\ sess_clock - active_sessions[id].started_at > 3600
          /\ \A id \in DOMAIN active_sessions :
                active_sessions[id].status \in {"initializing", "discovering", "crawling"}
                    => id \in DOMAIN active_sessions']_vars

\* a cleanup has removed a finished session started more than an hour
\* before, and has kept a session of the same age that is initializing
C21_Witness ==
    /\ sess_last = "cleanup"
    /\ to_remove # {}
    /\ to_remove \cap DOMAIN active_sessions = {}
    /\ \E id \in DOMAIN active_sessions :
          /\ active_sessions[id].status = "initializing"
          /\ sess_clock - active_sessions[id].started_at > 3600
====
